---- MODULE Spec2Model ----
(***************************************************************************)
(* Model of the imxrt-dcp driver: control packets, the four DCP channels,  *)
(* the single-channel and multi-channel executors, and the two task types  *)
(* (the Task of ex.rs with a blocking Drop, the frozen Task of task.rs     *)
(* with the Idle/Running/Done state).                                      *)
(*                                                                         *)
(* The repository holds two revisions of the executor: src/src/ex.rs       *)
(* (exec_* return a Task handle) and src/src/ex/mod.rs (exec_* return ()). *)
(* The variable rev fixes, for one behaviour, which revision the program   *)
(* is built from; task.rs is written against the Executor trait whose      *)
(* exec_one returns Result<(), _>, i.e. the ex/mod.rs revision.            *)
(***************************************************************************)
EXTENDS Integers, Sequences, FiniteSets, TLC

\* ---------------------------------------------------------------------------
\* Bounds and program constants
\* ---------------------------------------------------------------------------

\* Number of control packets the program owns; they lie contiguously in
\* memory (one array), packet p at "address" p, address 0 is "no packet".
NPkt == 2

\* The DCP has four channels, Ch0..Ch3.
NChannels == 4

Pkts == 1..NPkt

\* The address of a packet submitted before the behaviour starts (not one
\* of Pkts).
Earlier == NPkt + 1
Chans == 0..(NChannels - 1)

\* Status.bits values (raw.rs Status, bit 0 = done, bits 1..5 = error classes)
StDone == 1
StHashMismatch == 2
StSetupError == 4
StPacketError == 8
StSourceError == 16
StDestError == 32

ErrorBits == {StHashMismatch, StSetupError, StPacketError, StSourceError, StDestError}

VARIABLES
    rev,       \* "ex" (src/src/ex.rs) or "exmod" (src/src/ex/mod.rs)
    exKind,    \* "single" (SingleChannel<C>) or "sched" (Scheduler)
    chan,      \* the channel C a SingleChannel<C> is bound to
    pkt,       \* the control packets: [next, flags, tag, status]
    hw,        \* DCP registers [cmdptr, sema, stat] and the packet each channel works on [cur]
    used,      \* ex.rs: packet has been passed to exec_one/exec_slice (borrowed for 'a)
    handle,    \* ex.rs Task handles, keyed by the packet they poll
    dropping,  \* ex.rs: the handle whose Drop is spinning in nb::block!, 0 if none
    ftask,     \* task.rs: the live frozen Task [pk, state, first, refused], pk = 0 if none
    released,  \* packet memory has been released for reuse
    fault,     \* the error class the hardware reports in this behaviour when a packet fails
    last,      \* the most recent call: operation, arguments, result, register writes, pre-state
    dec,       \* Status::poll on its own: a status word and what poll returned for it
    prog,      \* a program that builds one packet, submits it and polls it (the examples)
    life       \* the peripheral handle and the executor built on it, from take to release

vars == <<rev, exKind, chan, pkt, hw, used, handle, dropping, ftask, released, fault, last,
          dec, prog, life>>

\* The variables of the executor/task model, and their value in the
\* behaviours that are about dec, prog or life alone.
execVars == <<rev, exKind, chan, pkt, hw, used, handle, dropping, ftask, released, fault, last>>

\* The value of dec, prog and life in the behaviours that do not use them.
Unused == [phase |-> "unused"]

\* ---------------------------------------------------------------------------
\* Results (crate::Result = nb::Result<u8, Error>, and ExError / SlotsFull)
\* ---------------------------------------------------------------------------
Res(kind, val) == [kind |-> kind, val |-> val]
ResOk(tag) == Res("Ok", tag)
ResUnit == Res("Ok", 0)
WouldBlock == Res("WouldBlock", 0)
SlotsFull == Res("SlotsFull", 0)

IsTerminal(r) == r.kind \notin {"WouldBlock", "SlotsFull", "none"}

\* ---------------------------------------------------------------------------
\* packet/raw.rs
\* ---------------------------------------------------------------------------

\* Status::default(): all zero.
StatusDefault == [bits |-> 0, error_code |-> 0, tag |-> 0]

\* A faulty Status::poll without the test of the done bit: the match alone.
Status_poll_NoDoneTest(st) ==
    CASE st.bits = 1  -> ResOk(st.tag)
      [] st.bits = 2  -> Res("HashMismatch", st.error_code)
      [] st.bits = 4  -> Res("SetupError", st.error_code)
      [] st.bits = 8  -> Res("PacketError", st.error_code)
      [] st.bits = 16 -> Res("SourceError", st.error_code)
      [] st.bits = 32 -> Res("DestError", st.error_code)
      [] OTHER        -> Res("Other", st.error_code)

\* Status::poll (raw.rs:184-198). bits[0] is the done bit; the match is on the
\* whole bits byte.
Status_poll(st) ==
    IF st.bits % 2 = 1
    THEN CASE st.bits = 1  -> ResOk(st.tag)
           [] st.bits = 2  -> Res("HashMismatch", st.error_code)
           [] st.bits = 4  -> Res("SetupError", st.error_code)
           [] st.bits = 8  -> Res("PacketError", st.error_code)
           [] st.bits = 16 -> Res("SourceError", st.error_code)
           [] st.bits = 32 -> Res("DestError", st.error_code)
           [] OTHER        -> Res("Other", st.error_code)
    ELSE WouldBlock

\* A packet built with the done bit of its status set.
NewPacket_DoneSet(flags, tag) ==
    [next |-> 0, flags |-> flags, tag |-> tag,
     status |-> [bits |-> 1, error_code |-> 0, tag |-> 0]]

\* A freshly built packet (packet/mod.rs constructors: next: None,
\* status: Status::default()); flags are the control0 modifier bits the
\* executors care about, tag is control0.tag.
NewPacket(flags, tag) ==
    [next |-> 0, flags |-> flags, tag |-> tag, status |-> StatusDefault]

\* Control0::chain_continuous / Control0::decr_semaphore (raw.rs:72-97):
\* set one bit of control0.flags in place.
SetFlag(pk, f) == [pk EXCEPT !.flags = @ \cup {f}]

\* ---------------------------------------------------------------------------
\* channels/mod.rs : register-level operations of channel ch.
\* m = [hw |-> registers, log |-> sequence of register writes of this call]
\* ---------------------------------------------------------------------------
RegWrite(reg, ch, val) == [reg |-> reg, ch |-> ch, val |-> val]

\* busy!: read CHnSEMA, VALUE != 0
busy(h, ch) == h.sema[ch] # 0

\* clear_status!: write u32::MAX to CHnSTAT_CLR
clear_status(m, ch) ==
    [hw  |-> [m.hw EXCEPT !.stat[ch] = 0],
     log |-> Append(m.log, RegWrite("STAT_CLR", ch, 0))]

\* A write_cmdptr that writes CH0CMDPTR whatever the channel.
write_cmdptr_Ch0Register(m, ch, p) ==
    [hw  |-> [m.hw EXCEPT !.cmdptr[0] = p],
     log |-> Append(m.log, RegWrite("CMDPTR", 0, p))]

\* write_cmdptr!: write the packet's address to CHnCMDPTR
write_cmdptr(m, ch, p) ==
    [hw  |-> [m.hw EXCEPT !.cmdptr[ch] = p],
     log |-> Append(m.log, RegWrite("CMDPTR", ch, p))]

\* incr_semaphore!: write value to CHnSEMA; the hardware adds it to the
\* counter and, if the channel was idle, starts on the packet at CMDPTR.
incr_semaphore(m, ch, value) ==
    [hw  |-> [m.hw EXCEPT !.sema[ch] = @ + value,
                          !.cur[ch] = IF @ = 0 THEN m.hw.cmdptr[ch] ELSE @],
     log |-> Append(m.log, RegWrite("SEMA", ch, value))]

\* Channel::clear_and_cmdptr (channels/mod.rs:33-37)
clear_and_cmdptr(m, ch, p) == write_cmdptr(clear_status(m, ch), ch, p)

\* ---------------------------------------------------------------------------
\* Control0::flag of the ex.rs revision (packet.rs, not among the sources):
\* used as `c = c.flag(F)` throughout packet/builder.rs, it takes the
\* Control0 by value and returns a copy with F set.
\* ---------------------------------------------------------------------------
Control0_flag(flags, f) == flags \cup {f}

\* ---------------------------------------------------------------------------
\* Executors: inner_exec. h is the register state, pk the packets, p the
\* packet whose address is submitted. The result is
\* [res, hw, log, pkt]: what is returned, the registers, the register writes
\* made, the packets.
\* ---------------------------------------------------------------------------
\* A faulty submission that increments the semaphore before the status is
\* cleared and the command pointer written.
Arm_SemaphoreFirst(h, ch, p) ==
    clear_and_cmdptr(incr_semaphore([hw |-> h, log |-> <<>>], ch, 1), ch, p)

\* The three register operations of a submission, in program order
\* (ex.rs:89-90, 149-150, ...; ex/mod.rs:81-82, 137-138, ...).
Arm(h, ch, p) == incr_semaphore(clear_and_cmdptr([hw |-> h, log |-> <<>>], ch, p), ch, 1)

\* A faulty SingleChannel::inner_exec that arms the channel without looking
\* at the semaphore.
SingleChannel_inner_exec_Unchecked(p, h, pk) ==
    LET m == Arm(h, chan, p)
    IN  [res |-> ResUnit, hw |-> m.hw, log |-> m.log, pkt |-> pk]

\* A faulty SingleChannel::inner_exec that arms a busy channel as well, on
\* top of what the channel holds.
SingleChannel_inner_exec_Stacking(p, h, pk) ==
    LET m == Arm(h, chan, p)
    IN  [res |-> ResUnit, hw |-> m.hw, log |-> m.log, pkt |-> pk]

\* SingleChannel::inner_exec, ex.rs:83-95. Line 88 calls
\* task.control0.flag(DecrSemaphore) and drops the returned copy, so the
\* packet is unchanged.
SingleChannel_inner_exec(p, h, pk) ==
    IF busy(h, chan)
    THEN [res |-> SlotsFull, hw |-> h, log |-> <<>>, pkt |-> pk]
    ELSE LET discarded == Control0_flag(pk[p].flags, "DecrSemaphore")
             m == Arm(h, chan, p)
         IN  [res |-> ResUnit, hw |-> m.hw, log |-> m.log, pkt |-> pk]

\* SingleChannel::inner_exec, ex/mod.rs:75-87: decr_semaphore() sets the bit
\* in place.
SingleChannel_inner_exec_mod(p, h, pk) ==
    IF busy(h, chan)
    THEN [res |-> SlotsFull, hw |-> h, log |-> <<>>, pkt |-> pk]
    ELSE LET pk2 == [pk EXCEPT ![p] = SetFlag(@, "DecrSemaphore")]
             m == Arm(h, chan, p)
         IN  [res |-> ResUnit, hw |-> m.hw, log |-> m.log, pkt |-> pk2]

\* A faulty Scheduler::inner_exec that never looks at Ch0.
Scheduler_inner_exec_ThreeChannels(p, h, pk) ==
    LET armed(ch) == LET m == Arm(h, ch, p)
                     IN [res |-> ResUnit, hw |-> m.hw, log |-> m.log, pkt |-> pk]
    IN  IF ~busy(h, 3) THEN armed(3)
        ELSE IF ~busy(h, 2) THEN armed(2)
        ELSE IF ~busy(h, 1) THEN armed(1)
        ELSE [res |-> SlotsFull, hw |-> h, log |-> <<>>, pkt |-> pk]

\* A faulty Scheduler::inner_exec that tries the channels in the order
\* Ch0, Ch1, Ch2, Ch3.
Scheduler_inner_exec_Ascending(p, h, pk) ==
    LET armed(ch) == LET m == Arm(h, ch, p)
                     IN [res |-> ResUnit, hw |-> m.hw, log |-> m.log, pkt |-> pk]
    IN  IF ~busy(h, 0) THEN armed(0)
        ELSE IF ~busy(h, 1) THEN armed(1)
        ELSE IF ~busy(h, 2) THEN armed(2)
        ELSE IF ~busy(h, 3) THEN armed(3)
        ELSE [res |-> SlotsFull, hw |-> h, log |-> <<>>, pkt |-> pk]

\* Scheduler::inner_exec, ex.rs:146-165 (ex/mod.rs:134-153 is the same code):
\* the first idle channel in the order Ch3, Ch2, Ch1, Ch0.
Scheduler_inner_exec(p, h, pk) ==
    LET armed(ch) == LET m == Arm(h, ch, p)
                     IN [res |-> ResUnit, hw |-> m.hw, log |-> m.log, pkt |-> pk]
    IN  IF ~busy(h, 3) THEN armed(3)
        ELSE IF ~busy(h, 2) THEN armed(2)
        ELSE IF ~busy(h, 1) THEN armed(1)
        ELSE IF ~busy(h, 0) THEN armed(0)
        ELSE [res |-> SlotsFull, hw |-> h, log |-> <<>>, pkt |-> pk]

\* Executor::inner_exec, dispatched on the executor the program holds.
inner_exec(p, h, pk) ==
    IF exKind = "sched" THEN Scheduler_inner_exec(p, h, pk)
    ELSE IF rev = "ex" THEN SingleChannel_inner_exec(p, h, pk)
    ELSE SingleChannel_inner_exec_mod(p, h, pk)

\* The packets of the slice lo..lo+n-1 as the caller built them: those in ds
\* with decr_semaphore() (builder.rs:85-88, packet/mod.rs:230), the others
\* without.
Built(pk, lo, n, ds) ==
    [q \in Pkts |-> IF q >= lo /\ q < lo + n /\ q \in ds
                    THEN SetFlag(pk[q], "DecrSemaphore") ELSE pk[q]]

Slice(lo, n) == lo..(lo + n - 1)

\* The program takes its packets from the front of the array: the next
\* packet it builds is the first one not used yet.
NextFree(p) == ~used[p] /\ \A q \in Pkts : q < p => used[q]

\* decr_semaphore() is documented (builder.rs:83-84) for the last packet of
\* a chain: the caller sets it there or nowhere.
DsChoices(lo, n) == {{}, {lo + n - 1}}

\* A faulty loop that marks every packet of the slice, the last included.
ChainMost_All(pk, lo, n) ==
    [q \in Pkts |-> IF q >= lo /\ q < lo + n
                    THEN [pk[q] EXCEPT !.flags = Control0_flag(@, "ChainContinuous")]
                    ELSE pk[q]]

\* A variant of the loop that also stores the address of the following packet
\* in next.
ChainMost_Linking(pk, lo, n) ==
    [q \in Pkts |-> IF q >= lo /\ q < lo + n - 1
                    THEN [pk[q] EXCEPT !.flags = Control0_flag(@, "ChainContinuous"),
                                       !.next = q + 1]
                    ELSE pk[q]]

\* for task in most { task.control0 = chain-continuous }: ex.rs:36-39 and
\* ex/mod.rs:23-26. lo is the first packet of the slice, n its length.
ChainMost(pk, lo, n) ==
    [q \in Pkts |-> IF q >= lo /\ q < lo + n - 1
                    THEN [pk[q] EXCEPT !.flags = Control0_flag(@, "ChainContinuous")]
                    ELSE pk[q]]

\* ---------------------------------------------------------------------------
\* The record of the most recent call
\* ---------------------------------------------------------------------------
\* op, first packet, length, the packets of the argument that came with the
\* caller's decrement-semaphore flag, the result, the register writes made,
\* and the state the frozen Task was in when the call was made.
Call(op, p, n, ds, res, log) ==
    [op |-> op, pk |-> p, n |-> n, ds |-> ds, res |-> res, log |-> log,
     pre |-> ftask.state]

\* No call is being described (initially, and after a hardware step).
NoCall(op) == Call(op, 0, 0, {}, Res("none", 0), <<>>)

\* The registers when the channels in bg were armed earlier (by the same
\* inner_exec: semaphore 1) with a packet that did not carry
\* decrement-semaphore: the packet has completed, the semaphore stays
\* nonzero. The other channels are idle.
LoadedHw(bg) ==
    [cmdptr |-> [c \in Chans |-> IF c \in bg THEN Earlier ELSE 0],
     sema   |-> [c \in Chans |-> IF c \in bg THEN 1 ELSE 0],
     stat   |-> [c \in Chans |-> 0],
     cur    |-> [c \in Chans |-> 0]]

\* ---------------------------------------------------------------------------
\* Initial state: the peripheral is set up and the executor constructed
\* (SingleChannel::take / SingleChannel::new on channel chan, or
\* Scheduler::new). The channel of a SingleChannel is idle; of the channels
\* of a Scheduler, earlier submissions still hold none, Ch3 and Ch1, all but
\* Ch0, or all four. There is room for NPkt packets, none submitted yet; the
\* program uses them from the front.
\* ---------------------------------------------------------------------------
NoTask == [pk |-> 0, state |-> "None", first |-> Res("none", 0), refused |-> FALSE]
NoHandle == [st |-> "none", lo |-> 0]

Init ==
    /\ rev \in {"ex", "exmod"}
    /\ exKind \in {"single", "sched"}
    /\ chan \in (IF exKind = "single" THEN Chans ELSE {0})
    /\ pkt = [p \in Pkts |-> NewPacket({}, p)]
    /\ \E bg \in {{}, {3, 1}, {3, 2, 1}, Chans} :
          /\ exKind = "single" => bg = {}
          /\ hw = LoadedHw(bg)
    /\ fault \in ErrorBits
    /\ used = [p \in Pkts |-> FALSE]
    /\ handle = [p \in Pkts |-> NoHandle]
    /\ dropping = 0
    /\ ftask = NoTask
    /\ released = [p \in Pkts |-> FALSE]
    /\ last = NoCall("none")
    /\ dec = Unused /\ prog = Unused /\ life = Unused

\* ---------------------------------------------------------------------------
\* ex.rs: Executor::exec_one / exec_slice, Task::poll, Drop for Task
\* ---------------------------------------------------------------------------

\* Executor::exec_one, ex.rs:27-30. The argument is &'a mut ControlPacket<'a>:
\* the packet stays borrowed for its whole life, so no packet is passed twice.
ExecOne(p, ds) ==
    /\ rev = "ex" /\ dropping = 0
    /\ NextFree(p)
    /\ LET r == inner_exec(p, hw, Built(pkt, p, 1, ds))
       IN  /\ hw' = r.hw
           /\ pkt' = r.pkt
           /\ handle' = IF r.res = SlotsFull THEN handle
                        ELSE [handle EXCEPT ![p] = [st |-> "live", lo |-> p]]
           /\ last' = Call("exec_one", p, 1, ds, r.res, r.log)
    /\ used' = [used EXCEPT ![p] = TRUE]
    /\ UNCHANGED <<dec, prog, life, fault, rev, exKind, chan, dropping, ftask, released>>

\* Executor::exec_slice, ex.rs:35-42, over the slice lo..lo+n-1 (n >= 1; the
\* empty slice panics at the unwrap of line 36). The flags are set before
\* inner_exec is tried; the address submitted is that of tasks[0]; the Task
\* returned polls the last packet.
ExecSlice(lo, n, ds) ==
    /\ rev = "ex" /\ dropping = 0
    /\ n >= 1 /\ lo + n - 1 <= NPkt
    /\ n > 0 => NextFree(lo)
    /\ LET r == inner_exec(lo, hw, ChainMost(Built(pkt, lo, n, ds), lo, n))
       IN  /\ hw' = r.hw
           /\ pkt' = r.pkt
           /\ handle' = IF r.res = SlotsFull THEN handle
                        ELSE [handle EXCEPT ![lo + n - 1] = [st |-> "live", lo |-> lo]]
           /\ last' = Call("exec_slice", lo, n, ds, r.res, r.log)
    /\ used' = [q \in Pkts |-> used[q] \/ q \in Slice(lo, n)]
    /\ UNCHANGED <<dec, prog, life, fault, rev, exKind, chan, dropping, ftask, released>>

\* Task::poll, ex.rs:176-178
TaskPoll(p) ==
    /\ rev = "ex" /\ dropping = 0
    /\ handle[p].st = "live"
    /\ last' = Call("poll", p, 1, {}, Status_poll(pkt[p].status), <<>>)
    /\ UNCHANGED <<dec, prog, life, fault, rev, exKind, chan, pkt, hw, used, handle, dropping, ftask, released>>

\* Drop for Task, ex.rs:181-185: nb::block!(self.poll()) spins while the poll
\* is WouldBlock. TaskDrop enters the loop, TaskDropReturn leaves it; while it
\* spins the (single-threaded) program does nothing else.
TaskDrop(p) ==
    /\ rev = "ex" /\ dropping = 0
    /\ handle[p].st = "live"
    /\ dropping' = p
    /\ last' = Call("drop", p, 1, {}, Res("none", 0), <<>>)
    /\ UNCHANGED <<dec, prog, life, fault, rev, exKind, chan, pkt, hw, used, handle, ftask, released>>

\* The loop's exit condition.
DropMayReturn(p) == Status_poll(pkt[p].status) # WouldBlock

\* When drop returns the borrow of the slice ends: the packets and their
\* buffers may be moved, freed or reused.
TaskDropReturn ==
    /\ rev = "ex" /\ dropping # 0
    /\ DropMayReturn(dropping)
    /\ handle' = [handle EXCEPT ![dropping].st = "gone"]
    /\ released' = [q \in Pkts |->
                       released[q] \/ (q >= handle[dropping].lo /\ q <= dropping)]
    /\ dropping' = 0
    /\ last' = Call("dropped", dropping, 1, {}, Status_poll(pkt[dropping].status), <<>>)
    /\ UNCHANGED <<dec, prog, life, fault, rev, exKind, chan, pkt, hw, used, ftask>>

\* ---------------------------------------------------------------------------
\* ex/mod.rs: Executor::exec_one / exec_slice (both return Result<(), SlotsFull>)
\* The program passes each packet once; while a frozen Task is alive it
\* holds &mut to the executor, so no other call reaches the executor.
\* ---------------------------------------------------------------------------

\* Executor::exec_one, ex/mod.rs:14-18
ExecOneMod(p, ds) ==
    /\ rev = "exmod" /\ ftask.pk = 0
    /\ NextFree(p)
    /\ LET r == inner_exec(p, hw, Built(pkt, p, 1, ds))
       IN  /\ hw' = r.hw
           /\ pkt' = r.pkt
           /\ last' = Call("exec_one", p, 1, ds, r.res, r.log)
    /\ used' = [used EXCEPT ![p] = TRUE]
    /\ UNCHANGED <<dec, prog, life, fault, rev, exKind, chan, handle, dropping, ftask, released>>

\* Executor::exec_slice, ex/mod.rs:21-31, over the slice lo..lo+n-1, n >= 0.
\* split_last_mut gives (last, most); the flags are set on most and
\* inner_exec is called on last; the empty slice returns Ok(()) at once.
ExecSliceMod(lo, n, ds) ==
    /\ rev = "exmod" /\ ftask.pk = 0
    /\ n >= 0 /\ lo + n - 1 <= NPkt
    /\ n = 0 => lo = 1
    /\ n > 0 => NextFree(lo)
    /\ IF n = 0
       THEN /\ last' = Call("exec_slice", lo, 0, ds, ResUnit, <<>>)
            /\ UNCHANGED <<hw, pkt>>
       ELSE LET r == inner_exec(lo + n - 1, hw, ChainMost(Built(pkt, lo, n, ds), lo, n))
            IN  /\ hw' = r.hw
                /\ pkt' = r.pkt
                /\ last' = Call("exec_slice", lo, n, ds, r.res, r.log)
    /\ used' = [q \in Pkts |-> used[q] \/ q \in Slice(lo, n)]
    /\ UNCHANGED <<dec, prog, life, fault, rev, exKind, chan, handle, dropping, ftask, released>>

\* ---------------------------------------------------------------------------
\* task.rs: BlankTask::freeze, Task::poll, and the destruction of a Task
\* ---------------------------------------------------------------------------

\* BlankTask::freeze, task.rs:28-35: the Task owns its packet (inner) and
\* borrows the executor mutably; state Idle. ftask.first remembers the
\* terminal result the first poll that reaches Done returns, ftask.refused
\* that a poll of this Task has been turned down by the executor.
Freeze(p, ds) ==
    /\ rev = "exmod" /\ ftask.pk = 0
    /\ NextFree(p)
    /\ ftask' = [pk |-> p, state |-> "Idle", first |-> Res("none", 0), refused |-> FALSE]
    /\ pkt' = Built(pkt, p, 1, ds)
    /\ used' = [used EXCEPT ![p] = TRUE]
    /\ last' = Call("freeze", p, 1, ds, Res("none", 0), <<>>)
    /\ UNCHANGED <<dec, prog, life, fault, rev, exKind, chan, hw, handle, dropping, released>>

\* A faulty Idle arm that ignores the executor's error: the Task goes to
\* Running whether or not the packet was submitted.
PollIdle_RunningAnyway ==
    /\ ftask.state = "Idle"
    /\ LET r == inner_exec(ftask.pk, hw, pkt)
       IN  /\ hw' = r.hw
           /\ pkt' = r.pkt
           /\ ftask' = [ftask EXCEPT !.state = "Running"]
           /\ last' = Call("fpoll", ftask.pk, 1, {}, WouldBlock, r.log)
    /\ UNCHANGED <<dec, prog, life, fault, rev, exKind, chan, used, handle, dropping, released>>

\* Task::poll in state Idle, task.rs:185-191
PollIdle ==
    /\ ftask.state = "Idle"
    /\ LET r == inner_exec(ftask.pk, hw, pkt)
       IN  /\ hw' = r.hw
           /\ pkt' = r.pkt
           /\ IF r.res = SlotsFull
              THEN /\ ftask' = [ftask EXCEPT !.refused = TRUE]
                   /\ last' = Call("fpoll", ftask.pk, 1, {}, SlotsFull, r.log)
              ELSE /\ ftask' = [ftask EXCEPT !.state = "Running"]
                   /\ last' = Call("fpoll", ftask.pk, 1, {}, WouldBlock, r.log)
    /\ UNCHANGED <<dec, prog, life, fault, rev, exKind, chan, used, handle, dropping, released>>

\* A faulty Running arm that moves to Done on success only.
PollRunning_ErrorsKeepRunning ==
    /\ ftask.state = "Running"
    /\ LET r == Status_poll(pkt[ftask.pk].status)
       IN  /\ ftask' = IF r.kind = "Ok"
                       THEN [ftask EXCEPT !.state = "Done", !.first = r]
                       ELSE ftask
           /\ last' = Call("fpoll", ftask.pk, 1, {}, r, <<>>)
    /\ UNCHANGED <<dec, prog, life, fault, rev, exKind, chan, pkt, hw, used, handle, dropping, released>>

\* A faulty Running arm that falls back to Idle while the status is not
\* complete, so that the next poll submits the packet again.
PollRunning_BackToIdle ==
    /\ ftask.state = "Running"
    /\ LET r == Status_poll(pkt[ftask.pk].status)
       IN  /\ ftask' = IF r = WouldBlock THEN [ftask EXCEPT !.state = "Idle"]
                       ELSE [ftask EXCEPT !.state = "Done", !.first = r]
           /\ last' = Call("fpoll", ftask.pk, 1, {}, r, <<>>)
    /\ UNCHANGED <<dec, prog, life, fault, rev, exKind, chan, pkt, hw, used, handle, dropping, released>>

\* Task::poll in state Running, task.rs:192-204
PollRunning ==
    /\ ftask.state = "Running"
    /\ LET r == Status_poll(pkt[ftask.pk].status)
       IN  /\ ftask' = IF r = WouldBlock THEN ftask
                       ELSE [ftask EXCEPT !.state = "Done", !.first = r]
           /\ last' = Call("fpoll", ftask.pk, 1, {}, r, <<>>)
    /\ UNCHANGED <<dec, prog, life, fault, rev, exKind, chan, pkt, hw, used, handle, dropping, released>>

\* A faulty Done arm that submits the packet again before reading the status.
PollDone_Resubmits ==
    /\ ftask.state = "Done"
    /\ LET r == inner_exec(ftask.pk, hw, pkt)
       IN  /\ hw' = r.hw
           /\ pkt' = r.pkt
           /\ last' = Call("fpoll", ftask.pk, 1, {}, Status_poll(pkt[ftask.pk].status), r.log)
    /\ UNCHANGED <<dec, prog, life, fault, rev, exKind, chan, used, handle, dropping, ftask, released>>

\* Task::poll in state Done, task.rs:205
PollDone ==
    /\ ftask.state = "Done"
    /\ last' = Call("fpoll", ftask.pk, 1, {}, Status_poll(pkt[ftask.pk].status), <<>>)
    /\ UNCHANGED <<dec, prog, life, fault, rev, exKind, chan, pkt, hw, used, handle, dropping, ftask, released>>

\* Task::poll, task.rs:182-208
Task_poll == PollIdle \/ PollRunning \/ PollDone

\* Destruction of a task.rs Task. The type has no Drop impl (task.rs:164-208):
\* dropping it in any state frees inner at once and ends the borrow of the
\* executor.
FrozenDrop ==
    /\ ftask.pk # 0
    /\ released' = [released EXCEPT ![ftask.pk] = TRUE]
    /\ ftask' = NoTask
    /\ last' = Call("fdrop", ftask.pk, 1, {}, Res("none", 0), <<>>)
    /\ UNCHANGED <<dec, prog, life, fault, rev, exKind, chan, pkt, hw, used, handle, dropping>>

\* ---------------------------------------------------------------------------
\* The hardware: a channel with a packet in work completes it.
\* It writes the packet's status (done bit, on failure the error class
\* fault with an error code, the tag of control0), decrements the semaphore if the packet is
\* marked decrement-semaphore, and goes on to the packet that follows in
\* memory if the packet is marked chain-continuous and ended without error.
\* ---------------------------------------------------------------------------
Outcomes == {[bits |-> StDone, error_code |-> 0],
             [bits |-> StDone + fault, error_code |-> 255]}

HwComplete(ch) ==
    /\ hw.cur[ch] \in Pkts
    /\ \E o \in Outcomes :
        LET p == hw.cur[ch]
            ok == o.bits = StDone
        IN  /\ pkt' = [pkt EXCEPT ![p].status =
                          [bits |-> o.bits, error_code |-> o.error_code, tag |-> pkt[p].tag]]
            /\ hw' = [hw EXCEPT
                        !.sema[ch] = IF "DecrSemaphore" \in pkt[p].flags /\ @ > 0
                                     THEN @ - 1 ELSE @,
                        !.stat[ch] = IF ok THEN @ ELSE o.bits - StDone,
                        !.cur[ch]  = IF ok /\ "ChainContinuous" \in pkt[p].flags /\ p < NPkt
                                     THEN p + 1 ELSE 0]
    /\ last' = NoCall("hw")
    /\ UNCHANGED <<dec, prog, life, fault, rev, exKind, chan, used, handle, dropping, ftask, released>>

Next ==
    \/ \E p \in Pkts, ds \in SUBSET Pkts : ds \in DsChoices(p, 1) /\ ExecOne(p, ds)
    \/ \E lo \in Pkts, n \in 1..NPkt, ds \in SUBSET Pkts :
          ds \in DsChoices(lo, n) /\ ExecSlice(lo, n, ds)
    \/ \E p \in Pkts : TaskPoll(p)
    \/ \E p \in Pkts : TaskDrop(p)
    \/ TaskDropReturn
    \/ \E p \in Pkts, ds \in SUBSET Pkts : ds \in DsChoices(p, 1) /\ ExecOneMod(p, ds)
    \/ \E lo \in Pkts, n \in 0..NPkt, ds \in SUBSET Pkts :
          ds \in DsChoices(lo, n) /\ ExecSliceMod(lo, n, ds)
    \/ \E p \in Pkts, ds \in SUBSET Pkts : ds \in DsChoices(p, 1) /\ Freeze(p, ds)
    \/ Task_poll
    \/ FrozenDrop
    \/ \E ch \in Chans : HwComplete(ch)

Spec == Init /\ [][Next]_vars

\* ---------------------------------------------------------------------------
\* Notions the properties below are stated with
\* ---------------------------------------------------------------------------

\* The packets a channel that is working on packet p has yet to complete: p
\* and, while the packets are marked chain-continuous, those that follow it.
RECURSIVE ChainFrom(_)
ChainFrom(p) ==
    IF p \notin Pkts THEN {}
    ELSE {p} \cup (IF "ChainContinuous" \in pkt[p].flags /\ p < NPkt
                   THEN ChainFrom(p + 1) ELSE {})

\* The hardware may still read or write packet p (and the buffers it names).
InFlight(p) == \E ch \in Chans : p \in ChainFrom(hw.cur[ch])

\* The call described by l hands at least one packet to inner_exec:
\* exec_one, exec_slice over a non-empty slice, or the poll of an Idle Task
\* (which calls exec_one).
Submits(l) ==
    \/ l.op \in {"exec_one", "exec_slice"} /\ l.n >= 1
    \/ l.op = "fpoll" /\ l.pre = "Idle"

\* The register writes of kind reg in a call's log.
Writes(log, reg) == {i \in DOMAIN log : log[i].reg = reg}

\* ---------------------------------------------------------------------------
\* Task life cycle (C1..C4)
\* ---------------------------------------------------------------------------

\* C1: the memory of a packet is never released while the hardware may still
\* work on it, whichever task type tracks the packet (the Task of ex.rs or
\* the frozen Task of task.rs): destroying a task whose operation is in
\* flight waits for the terminal status first.
C1_NoReleaseInFlight == \A p \in Pkts : released[p] => ~InFlight(p)

\* The part of C1 that the Task of ex.rs does keep: its Drop returns only
\* when the status of its packet is terminal, and no packet of its slice is
\* in flight when the memory is released.
ExTaskDropWaits ==
    rev = "ex" => /\ \A p \in Pkts : released[p] => ~InFlight(p)
                  /\ last.op = "dropped" => IsTerminal(last.res)

C3_RunningPoll ==
    [][(last'.op = "fpoll" /\ ftask.state = "Running") =>
         LET st == pkt[ftask.pk].status
         IN  IF st.bits % 2 = 0
             THEN ftask'.state = "Running" /\ last'.res = WouldBlock
             ELSE /\ ftask'.state = "Done"
                  /\ IsTerminal(last'.res)
                  /\ last'.res.kind = "Ok" <=> st.bits = StDone
                  /\ last'.res.val = IF st.bits = StDone THEN st.tag ELSE st.error_code
                  /\ ftask'.first = last'.res]_vars

\* A Running Task whose packet the hardware ended with an error has been
\* polled: the poll returned the error and the Task is Done.
C3_Witness ==
    /\ last.op = "fpoll" /\ last.pre = "Running" /\ ftask.state = "Done"
    /\ pkt[ftask.pk].status.bits = StDone + fault
    /\ last.res.kind \notin {"Ok", "WouldBlock"} /\ last.res.val = 255

\* C4: a poll of a Done Task returns the terminal result the Task reached
\* Done with, and changes nothing: no register, no packet, no task state.
C4_DonePoll ==
    [][(last'.op = "fpoll" /\ ftask.state = "Done") =>
         /\ last'.res = ftask.first
         /\ IsTerminal(last'.res)
         /\ last'.log = <<>>
         /\ UNCHANGED <<hw, pkt, ftask, used, handle, dropping, released>>]_vars

\* A Done Task has been polled again, with its channel idle again.
C4_Witness ==
    /\ last.op = "fpoll" /\ last.pre = "Done" /\ ftask.state = "Done"
    /\ last.res = ftask.first
    /\ \A ch \in Chans : hw.cmdptr[ch] = ftask.pk => ~busy(hw, ch)
    /\ \E ch \in Chans : hw.cmdptr[ch] = ftask.pk

\* The order of the states of a Task.
StateRank(st) == CASE st = "Idle" -> 0 [] st = "Running" -> 1 [] st = "Done" -> 2

\* C33: the state of a Task only moves forward, Idle to Running to Done, and
\* a step in which the Task arms a channel (writes a command pointer or a
\* semaphore) is the step from Idle to Running: as the Task never returns
\* to Idle, at most one submission of a Task succeeds.
C33_StateMovesForward ==
    [][(ftask.pk # 0 /\ ftask'.pk = ftask.pk) =>
          /\ StateRank(ftask.state) <= StateRank(ftask'.state)
          /\ StateRank(ftask'.state) <= StateRank(ftask.state) + 1
          /\ (hw'.cmdptr # hw.cmdptr \/ \E ch \in Chans : hw'.sema[ch] > hw.sema[ch]) =>
                (ftask.state = "Idle" /\ ftask'.state = "Running")
          /\ (ftask.state = "Idle" /\ ftask'.state = "Running") =>
                \E ch \in Chans : hw'.cmdptr[ch] = ftask.pk /\ hw'.sema[ch] = hw.sema[ch] + 1]_vars

\* A Task that was turned down while Idle, then submitted, is Done and has
\* been polled again in Done; its channel was armed with its packet.
C33_Witness ==
    /\ ftask.state = "Done" /\ ftask.refused
    /\ last.op = "fpoll" /\ last.pre = "Done"
    /\ \E ch \in Chans : hw.cmdptr[ch] = ftask.pk

\* The done bit of the status of packet p is set.
DoneBit(p) == pkt[p].status.bits % 2 = 1

\* C34: a Task is Done, and a poll returns a result decoded from the status,
\* only when the hardware has finished the packet of the submission: a
\* packet that has not been handed to the hardware has the status it was
\* built with, done bit clear; a packet with the done bit set is one the
\* hardware has worked on and works on no longer; and a poll, of a Task of
\* task.rs or of ex.rs, that returns success or a status error finds the
\* done bit set and the packet no longer in flight.
C34_TerminalOnlyWhenFinished ==
    /\ \A p \in Pkts :
          /\ ~used[p] => pkt[p].status = StatusDefault
          /\ DoneBit(p) => (used[p] /\ \A ch \in Chans : hw.cur[ch] # p)
    /\ ftask.state = "Idle" => pkt[ftask.pk].status = StatusDefault
    /\ ftask.state = "Done" => (DoneBit(ftask.pk) /\ ~InFlight(ftask.pk))
    /\ (last.op \in {"fpoll", "poll", "dropped"} /\ IsTerminal(last.res)) =>
          (DoneBit(last.pk) /\ ~InFlight(last.pk))

\* A Task has just become Done by a poll that returned a status error, and
\* its channel works on nothing.
C34_Witness ==
    /\ ftask.state = "Done" /\ last.op = "fpoll" /\ last.pre = "Running"
    /\ last.res.kind \notin {"Ok", "WouldBlock", "SlotsFull", "none"}
    /\ pkt[ftask.pk].status.bits = StDone + fault
    /\ \A ch \in Chans : hw.cur[ch] = 0

\* ---------------------------------------------------------------------------
\* Executors (C5..C7)
\* ---------------------------------------------------------------------------

\* The call described by l submitted its packet: exec_one / exec_slice
\* returned Ok, or the poll of an Idle Task returned WouldBlock.
Succeeded(l) ==
    \/ l.op \in {"exec_one", "exec_slice"} /\ l.res = ResUnit
    \/ l.op = "fpoll" /\ l.res = WouldBlock

\* C5: on a SingleChannel, a submission of at least one packet (exec_one,
\* exec_slice, or the exec_one of an Idle Task's poll) made while the
\* semaphore of the bound channel is nonzero returns SlotsFull and writes
\* neither the command pointer nor the semaphore of any channel.
C5_SingleBusyRefuses ==
    [][(exKind = "single" /\ Submits(last') /\ busy(hw, chan)) =>
         /\ last'.res = SlotsFull
         /\ hw'.cmdptr = hw.cmdptr /\ hw'.sema = hw.sema
         /\ Writes(last'.log, "CMDPTR") = {} /\ Writes(last'.log, "SEMA") = {}]_vars

\* exec_one or exec_slice on a SingleChannel whose channel still works on
\* an earlier packet has returned SlotsFull.
C5_Witness ==
    /\ exKind = "single"
    /\ last.op \in {"exec_one", "exec_slice"} /\ last.n >= 1
    /\ last.res = SlotsFull
    /\ busy(hw, chan) /\ hw.cmdptr[chan] \in Pkts /\ hw.cmdptr[chan] < last.pk

\* C6: on a Scheduler, a submission of at least one packet returns SlotsFull
\* if and only if all four channels are busy (semaphore nonzero); if any
\* channel is idle it succeeds.
C6_SchedulerFullIffAllBusy ==
    [][(exKind = "sched" /\ Submits(last')) =>
         IF \A ch \in Chans : busy(hw, ch)
         THEN last'.res = SlotsFull
         ELSE Succeeded(last')]_vars

\* The Scheduler has turned a packet down after arming its last idle channel
\* with an earlier one.
C6_Witness ==
    /\ exKind = "sched"
    /\ last.op \in {"exec_one", "exec_slice"} /\ last.n >= 1
    /\ last.res = SlotsFull
    /\ \A ch \in Chans : busy(hw, ch)
    /\ \E ch \in Chans : hw.cmdptr[ch] \in Pkts

\* The channel the order Ch3, Ch2, Ch1, Ch0 gives for the registers h: the
\* idle channel with the highest index.
FirstIdle(h) ==
    CHOOSE c \in Chans : ~busy(h, c) /\ \A d \in Chans : d > c => busy(h, d)

\* C7: a successful submission on a Scheduler arms exactly one channel, the
\* idle channel with the highest index (a function of the set of idle
\* channels alone): that channel gets the command pointer and one semaphore
\* increment, and the command pointer, semaphore and status register of the
\* other three channels are as before.
C7_SchedulerArmsFirstIdle ==
    [][(exKind = "sched" /\ Submits(last') /\ Succeeded(last')) =>
         LET c == FirstIdle(hw)
         IN  /\ hw'.sema[c] = 1
             /\ hw'.cmdptr[c] \in Pkts /\ hw'.cur[c] = hw'.cmdptr[c]
             /\ \A i \in DOMAIN last'.log : last'.log[i].ch = c
             /\ \A d \in Chans \ {c} : /\ hw'.cmdptr[d] = hw.cmdptr[d]
                                       /\ hw'.sema[d] = hw.sema[d]
                                       /\ hw'.stat[d] = hw.stat[d]
                                       /\ hw'.cur[d] = hw.cur[d]]_vars

\* With Ch3 and Ch1 busy and Ch2 and Ch0 idle, the Scheduler has armed Ch2
\* and left Ch0 idle.
C7_Witness ==
    /\ exKind = "sched"
    /\ last.op \in {"exec_one", "exec_slice"} /\ last.res = ResUnit /\ last.n >= 1
    /\ Len(last.log) = 3 /\ last.log[3] = RegWrite("SEMA", 2, 1)
    /\ busy(hw, 3) /\ busy(hw, 1) /\ ~busy(hw, 0)
    /\ hw.cmdptr[2] \in Pkts

\* ---------------------------------------------------------------------------
\* exec_slice (C8..C10)
\* ---------------------------------------------------------------------------

\* C8: after exec_slice over a non-empty slice of n packets, packets
\* 0..n-2 of the slice carry the chain-continuous flag and packet n-1 does
\* not.
C8_ChainFlags ==
    (last.op = "exec_slice" /\ last.n >= 1) =>
        \A q \in Slice(last.pk, last.n) :
            "ChainContinuous" \in pkt[q].flags <=> q < last.pk + last.n - 1

\* exec_slice has been called on a slice of two or more packets.
C8_Witness ==
    /\ last.op = "exec_slice" /\ last.n >= 2
    /\ "ChainContinuous" \in pkt[last.pk].flags
    /\ "ChainContinuous" \notin pkt[last.pk + last.n - 1].flags

C10_OneArmOfFirstPacket ==
    (last.op = "exec_slice" /\ last.n >= 1 /\ last.res = ResUnit) =>
        /\ Cardinality(Writes(last.log, "CMDPTR")) = 1
        /\ Cardinality(Writes(last.log, "SEMA")) = 1
        /\ \A i \in Writes(last.log, "CMDPTR") : last.log[i].val = last.pk
        /\ \A i \in Writes(last.log, "SEMA") : last.log[i].val = 1

\* What C10 says of the ex.rs revision, which does submit tasks[0].
ExSliceArmsFirstPacket == rev = "ex" => C10_OneArmOfFirstPacket

\* ---------------------------------------------------------------------------
\* Register protocol (C11)
\* ---------------------------------------------------------------------------

\* C11: in every successful submission, by either executor and on whichever
\* channel, the write that clears the channel's status and the write of the
\* command pointer both come before the semaphore increment of that channel,
\* the command pointer written is the address of a packet of the call, and
\* that is the packet the hardware has started on.
C11_PointerBeforeSemaphore ==
    (Submits(last) /\ Succeeded(last)) =>
        /\ Writes(last.log, "SEMA") # {}
        /\ \A k \in Writes(last.log, "SEMA") :
              LET c == last.log[k].ch
              IN  /\ \E i \in Writes(last.log, "STAT_CLR") : i < k /\ last.log[i].ch = c
                  /\ \E j \in Writes(last.log, "CMDPTR") :
                        /\ j < k /\ last.log[j].ch = c
                        /\ last.log[j].val \in Slice(last.pk, last.n)
                        /\ hw.cur[c] = last.log[j].val
                        /\ hw.cmdptr[c] = last.log[j].val

\* A channel that still held the address of an earlier packet has been armed
\* with a new one.
C11_Witness ==
    /\ Submits(last) /\ Succeeded(last)
    /\ \E c \in Chans : /\ last.log = <<RegWrite("STAT_CLR", c, 0),
                                        RegWrite("CMDPTR", c, last.pk),
                                        RegWrite("SEMA", c, 1)>>
                        /\ hw.cur[c] = last.pk
    /\ last.pk > 1

\* ---------------------------------------------------------------------------
\* Status::poll on its own (C12, C13): the hardware writes a status word into
\* a packet's status field, the program polls it.
\* ---------------------------------------------------------------------------

\* bits is a u8: every value; error_code and tag are u8 too, three values of
\* each stand for them.
StatusBytes == 0..255
SampleBytes == {0, 7, 255}

StatusWords ==
    [bits : StatusBytes, error_code : SampleBytes, tag : SampleBytes]

\* The values of the executor/task variables in the behaviours that are
\* about dec, prog or life alone.
ExecUnused ==
    /\ rev = "ex" /\ exKind = "single" /\ chan = 0
    /\ pkt = [p \in Pkts |-> NewPacket({}, p)]
    /\ hw = LoadedHw({})
    /\ fault = StHashMismatch
    /\ used = [p \in Pkts |-> FALSE]
    /\ handle = [p \in Pkts |-> NoHandle]
    /\ dropping = 0
    /\ ftask = NoTask
    /\ released = [p \in Pkts |-> FALSE]
    /\ last = NoCall("none")

\* The status field of a packet that has been built: Status::default().
DecInit ==
    /\ dec = [phase |-> "built", status |-> StatusDefault,
              seen |-> StatusDefault, res |-> Res("none", 0)]
    /\ prog = Unused /\ life = Unused
    /\ ExecUnused

\* The hardware ends the packet and writes its status word, once (whatever
\* word: the decoding is looked at for every value of the byte).
DecHwWrite(w) ==
    /\ dec.status = StatusDefault
    /\ dec' = [dec EXCEPT !.phase = "written", !.status = w]
    /\ UNCHANGED <<prog, life, execVars>>

\* Status::poll(&self), raw.rs:184-198: one call, which returns; the status
\* is borrowed immutably.
DecPoll ==
    /\ dec' = [dec EXCEPT !.phase = "polled",
                          !.seen = dec.status,
                          !.res = Status_poll(dec.status)]
    /\ UNCHANGED <<prog, life, execVars>>

DecNext == (\E w \in StatusWords : DecHwWrite(w)) \/ DecPoll

SpecStatus == DecInit /\ [][DecNext]_vars

\* The error value the spec names for one error-class bit.
ClassOf(e) ==
    CASE e = StHashMismatch -> "HashMismatch"
      [] e = StSetupError   -> "SetupError"
      [] e = StPacketError  -> "PacketError"
      [] e = StSourceError  -> "SourceError"
      [] e = StDestError    -> "DestError"
      [] OTHER              -> "Other"

\* C12: a completed status (done bit set) with exactly one of the five
\* error-class bits set decodes to the error value of that class, carrying
\* the status's error code; every other completed status with an error bit
\* decodes to Other.
C12_ClassDecoding ==
    (dec.phase = "polled" /\ dec.status.bits % 2 = 1 /\ dec.status.bits # StDone) =>
        dec.res = Res(ClassOf(dec.status.bits - StDone), dec.status.error_code)

\* C13: Status::poll returns at once and leaves the status as it was; it
\* returns WouldBlock exactly when the done bit is clear, and success (with
\* the status's tag) exactly when the done bit is set and no other bit of
\* the byte is set.
C13_PollTotalAndPure ==
    dec.phase = "polled" =>
        /\ dec.res.kind # "none"
        /\ dec.status = dec.seen
        /\ dec.res = WouldBlock <=> dec.status.bits % 2 = 0
        /\ dec.res.kind = "Ok" <=> (dec.status.bits % 2 = 1 /\ dec.status.bits \div 2 = 0)
        /\ dec.res.kind = "Ok" => dec.res.val = dec.status.tag

\* A status with the done bit alone and tag 7 has been polled: the poll
\* returned Ok(7).
C13_Witness ==
    /\ dec.phase = "polled"
    /\ dec.status.bits = StDone /\ dec.status.tag = 7
    /\ dec.res = ResOk(7)

\* ---------------------------------------------------------------------------
\* Construction of packets with a payload (C15, C16): packet/mod.rs
\* PacketBuilder<..>::new and task.rs BlankTask<..>::set_buffers, as functions
\* of the operation, the algorithms and the lengths of the buffers passed.
\* ---------------------------------------------------------------------------

\* Longest payload buffer tried (the largest requirement the claims name is
\* 32 + 32) and longest source / destination buffer tried.
MaxPayload == 65
MaxBuf == 2

Hashes == {"Sha1", "Sha256", "Crc32"}
Ciphers == {"Aes128Ecb", "Aes128Cbc"}
PayloadOps == {"Hash", "Cipher", "MemcopyHash", "CipherHash"}

\* HashSelect::PAYLOAD_BYTES, ops/mod.rs:55-68
HashSelect_PAYLOAD_BYTES(h) ==
    CASE h = "Sha1"   -> 20
      [] h = "Sha256" -> 20
      [] h = "Crc32"  -> 4

\* CipherSelect::PAYLOAD_BYTES, ops/mod.rs:87-97
CipherSelect_PAYLOAD_BYTES(c) ==
    CASE c = "Aes128Ecb" -> 16
      [] c = "Aes128Cbc" -> 32

\* CryptMem (ops/config.rs:38-41): InPlace(buffer of s bytes) or
\* SourceDest(source of s bytes, destination of d bytes).
CryptMems ==
    {[kind |-> "InPlace", s |-> n, d |-> n] : n \in 0..MaxBuf}
    \cup {[kind |-> "SourceDest", s |-> n, d |-> m] : n \in 0..MaxBuf, m \in 0..MaxBuf}

\* What a constructor call ends with: a packet, or a panic (assert!).
Panic == [outcome |-> "panic", bufsize |-> 0, payload |-> "none", control0 |-> {}]
Constructed(ops, bufsize) ==
    [outcome |-> "packet", bufsize |-> bufsize, payload |-> "payl", control0 |-> ops]

\* PacketBuilder<Hash<H>>::new (packet/mod.rs:104-124) and
\* BlankTask<Hash<H>>::set_buffers (task.rs:106-119): the same assert and the
\* same bufsize.
Hash_new(h, srclen, pl) ==
    IF ~(pl >= HashSelect_PAYLOAD_BYTES(h)) THEN Panic
    ELSE Constructed({"EnableHash"}, srclen)

\* PacketBuilder<Cipher<C>>::new (packet/mod.rs:72-102) and
\* BlankTask<Cipher<C>>::set_buffers (task.rs:79-104)
Cipher_new(c, mem, pl) ==
    IF ~(pl >= CipherSelect_PAYLOAD_BYTES(c)) THEN Panic
    ELSE IF mem.kind = "SourceDest" /\ mem.s # mem.d THEN Panic
    ELSE Constructed({"EnableCipher"}, mem.s)

\* PacketBuilder<MemcopyHash<H>>::new (packet/mod.rs:126-147)
MemcopyHash_new(h, srclen, pl) ==
    IF ~(pl >= HashSelect_PAYLOAD_BYTES(h)) THEN Panic
    ELSE Constructed({"EnableMemcopy", "EnableHash"}, srclen)

\* BlankTask<MemcopyHash<H>>::set_buffers (task.rs:121-137): bufsize is not
\* assigned and keeps the value the blank task had (0 in the model).
MemcopyHash_set_buffers(h, srclen, pl) ==
    IF ~(pl >= HashSelect_PAYLOAD_BYTES(h)) THEN Panic
    ELSE Constructed({"EnableMemcopy", "EnableHash"}, 0)

\* PacketBuilder<CipherHash<C, H>>::new (packet/mod.rs:149-185) and
\* BlankTask<CipherHash<C, H>>::set_buffers (task.rs:139-162)
CipherHash_new(c, h, mem, pl) ==
    IF ~(pl >= CipherSelect_PAYLOAD_BYTES(c) + HashSelect_PAYLOAD_BYTES(h)) THEN Panic
    ELSE IF mem.kind = "SourceDest" /\ mem.s # mem.d THEN Panic
    ELSE Constructed({"EnableCipher", "EnableHash"}, mem.s)

\* The call the program makes: which API, which operation, which
\* algorithms, which buffers.
BuildArgs ==
    [api : {"PacketBuilder", "BlankTask"}, op : PayloadOps,
     hash : Hashes, cipher : Ciphers, mem : CryptMems, pl : 0..MaxPayload]

BuildInit ==
    /\ \E a \in BuildArgs : prog = [phase |-> "args", args |-> a, made |-> Panic]
    /\ dec = Unused /\ life = Unused
    /\ ExecUnused

\* The constructor runs.
Construct ==
    /\ prog.phase = "args"
    /\ LET a == prog.args
           made == CASE a.op = "Hash"   -> Hash_new(a.hash, a.mem.s, a.pl)
                     [] a.op = "Cipher" -> Cipher_new(a.cipher, a.mem, a.pl)
                     [] a.op = "MemcopyHash" ->
                            IF a.api = "PacketBuilder"
                            THEN MemcopyHash_new(a.hash, a.mem.s, a.pl)
                            ELSE MemcopyHash_set_buffers(a.hash, a.mem.s, a.pl)
                     [] a.op = "CipherHash" -> CipherHash_new(a.cipher, a.hash, a.mem, a.pl)
       IN  prog' = [prog EXCEPT !.phase = "returned", !.made = made]
    /\ UNCHANGED <<dec, life, execVars>>

BuildNext == Construct

SpecBuild == BuildInit /\ [][BuildNext]_vars

\* The digest sizes and key/IV sizes the claims name.
DigestSize(h) ==
    CASE h = "Sha1" -> 20 [] h = "Sha256" -> 32 [] h = "Crc32" -> 4
KeyIvSize(c) ==
    CASE c = "Aes128Ecb" -> 16 [] c = "Aes128Cbc" -> 32

\* C15: for every hash algorithm and every payload length, constructing a
\* hash packet (with either API) with a payload buffer shorter than the
\* algorithm's digest size (SHA-1 20, SHA-256 32, CRC32 4 bytes) fails and
\* produces no packet.
C15_ShortDigestBufferRejected ==
    (prog.phase = "returned" /\ prog.args.op = "Hash"
        /\ prog.args.pl < DigestSize(prog.args.hash)) =>
            prog.made.outcome # "packet"

\* The payload size the claim requires for cipher, copy+hash and cipher+hash
\* packets.
RequiredPayload(a) ==
    CASE a.op = "Cipher"      -> KeyIvSize(a.cipher)
      [] a.op = "MemcopyHash" -> DigestSize(a.hash)
      [] a.op = "CipherHash"  -> KeyIvSize(a.cipher) + DigestSize(a.hash)
      [] OTHER                -> 0

\* C16: constructing a cipher, copy+hash or cipher+hash packet with a payload
\* buffer shorter than the required size is rejected, and the rejection is an
\* error value returned to the caller, not an abort.
C16_ShortPayloadIsErrorValue ==
    (prog.phase = "returned" /\ prog.args.op \in {"Cipher", "MemcopyHash", "CipherHash"}
        /\ prog.args.pl < RequiredPayload(prog.args)) =>
            prog.made.outcome = "error"

\* The part of C16 the code keeps apart from SHA-256: a payload shorter than
\* the PAYLOAD_BYTES of the selected algorithms never yields a packet, and
\* the outcome is a function of the lengths.
ShortPayloadNeverBuilds ==
    (prog.phase = "returned" /\ prog.args.op \in {"Cipher", "MemcopyHash", "CipherHash"}
        /\ prog.args.hash # "Sha256"
        /\ prog.args.pl < RequiredPayload(prog.args)) =>
            prog.made.outcome = "panic"

\* ---------------------------------------------------------------------------
\* A program that builds one packet, submits it on SingleChannel<Ch0> and
\* polls it (C14, C17, C18): teensy40-examples/src/copy.rs and hash.rs with
\* the builder of packet/builder.rs, and the same copy made with a BlankTask
\* of task.rs.
\* prog = [phase, kind, t (the tag chosen), src, dst, payl (the buffers'
\*         contents), packet, hw (the registers), res (the last poll)]
\* ---------------------------------------------------------------------------

\* Longest source / destination buffer tried (the examples use 64 bytes).
MaxLen == 3

ProgKinds == {"copy", "hash", "blank"}

\* ControlPacket as zeroed() leaves it (builder.rs:105, 125, 142): no
\* pointer set, sizes 0, status 0. flags and tag are control0, hash is
\* control1.crypto.hash, ctl1 the 32 bits of control1.
ZeroedPacket ==
    [next |-> 0, flags |-> {}, tag |-> 0, hash |-> "none", ctl1 |-> 0,
     source |-> "null", dest |-> "null", bufsize |-> 0, payload |-> "null",
     status |-> StatusDefault]

\* PacketBuilder<Memcopy>::new / PacketBuilder<Hash>::new, builder.rs:123-149
PacketBuilder_new(enable) ==
    [ZeroedPacket EXCEPT !.flags = Control0_flag(@, enable)]

\* PacketBuilder::source, builder.rs:15-18
PacketBuilder_source(raw, buf) == [raw EXCEPT !.source = buf]

\* A faulty dest that stores the pointer and leaves bufsize alone.
PacketBuilder_dest_NoSize(raw, buf, len) == [raw EXCEPT !.dest = buf]

\* PacketBuilder::dest, builder.rs:27-33: the pointer, and bufsize = the
\* length of the destination slice.
PacketBuilder_dest(raw, buf, len) == [raw EXCEPT !.dest = buf, !.bufsize = len]

\* PacketBuilder::payload, builder.rs:44-47: the pointer only.
PacketBuilder_payload(raw, buf) == [raw EXCEPT !.payload = buf]

\* PacketBuilder::tag, builder.rs:50-53
PacketBuilder_tag(raw, t) == [raw EXCEPT !.tag = t]

\* PacketBuilder::decr_semaphore, builder.rs:85-88
PacketBuilder_decr_semaphore(raw) ==
    [raw EXCEPT !.flags = Control0_flag(@, "DecrSemaphore")]

\* PacketBuilder::hash / hash_init / hash_term, builder.rs:231-247
PacketBuilder_hash(raw, h) == [raw EXCEPT !.hash = h]
PacketBuilder_hash_init(raw) == [raw EXCEPT !.flags = Control0_flag(@, "HashInit")]
PacketBuilder_hash_term(raw) == [raw EXCEPT !.flags = Control0_flag(@, "HashTerm")]

\* BlankTask::set_tag, task.rs:24-26: the tag goes to raw.status.tag.
BlankTask_set_tag(raw, t) == [raw EXCEPT !.status.tag = t]

\* BlankTask<Memcopy>::set_buffers, task.rs:44-52 (memory-buffer source)
BlankTask_Memcopy_set_buffers(raw, src, dst, len) ==
    [raw EXCEPT !.source = src, !.dest = dst, !.bufsize = len]

\* copy.rs:37-45
CopyPacket(t, n) ==
    PacketBuilder_decr_semaphore(
        PacketBuilder_dest(
            PacketBuilder_source(
                PacketBuilder_tag(PacketBuilder_new("EnableMemcopy"), t),
                "src"),
            "dst", n))

\* hash.rs:48-59
HashPacket(t) ==
    PacketBuilder_decr_semaphore(
        PacketBuilder_payload(
            PacketBuilder_source(
                PacketBuilder_tag(
                    PacketBuilder_hash_term(
                        PacketBuilder_hash_init(
                            PacketBuilder_hash(PacketBuilder_new("EnableHash"), "Crc32"))),
                    t),
                "src"),
            "payl"))

\* The same copy with a BlankTask<Memcopy>: set_tag, set_buffers, freeze.
BlankPacket(t, n) ==
    BlankTask_Memcopy_set_buffers(
        BlankTask_set_tag(PacketBuilder_new("EnableMemcopy"), t), "src", "dst", n)

\* src_buf[i] = i (copy.rs:31-34), dest_buf zero (copy.rs:35, hash.rs:36).
Filled(n) == [i \in 1..n |-> i - 1]
Zeros(n) == [i \in 1..n |-> 0]

ProgInit ==
    /\ \E k \in ProgKinds, t \in StatusBytes, n \in 1..MaxLen :
          prog = [phase |-> "start", kind |-> k, t |-> t,
                  src |-> Filled(n), dst |-> Zeros(n), payl |-> Zeros(4),
                  packet |-> ZeroedPacket, hw |-> LoadedHw({}),
                  res |-> Res("none", 0)]
    /\ dec = Unused /\ life = Unused
    /\ ExecUnused

\* The program builds its packet.
ProgBuild ==
    /\ prog.phase = "start"
    /\ prog' = [prog EXCEPT
                  !.phase = "built",
                  !.packet = CASE prog.kind = "copy"  -> CopyPacket(prog.t, Len(prog.dst))
                               [] prog.kind = "hash"  -> HashPacket(prog.t)
                               [] prog.kind = "blank" -> BlankPacket(prog.t, Len(prog.dst))]
    /\ UNCHANGED <<dec, life, execVars>>

\* ex.exec_one(&mut packet).unwrap() (copy.rs:47, hash.rs:61) on the
\* SingleChannel<Ch0> of ex.rs; for the BlankTask the first poll of the
\* frozen Task, which calls exec_one of ex/mod.rs (task.rs:185-191).
ProgSubmit ==
    /\ prog.phase = "built"
    /\ LET r == IF prog.kind = "blank"
                THEN SingleChannel_inner_exec_mod(1, prog.hw, <<prog.packet>>)
                ELSE SingleChannel_inner_exec(1, prog.hw, <<prog.packet>>)
       IN  prog' = [prog EXCEPT !.phase = "submitted", !.hw = r.hw,
                                !.packet = r.pkt[1],
                                !.res = IF prog.kind = "blank" THEN WouldBlock ELSE @]
    /\ UNCHANGED <<dec, life, execVars>>

\* What the hash unit leaves in the payload: the digest of the bytes it was
\* given, by the algorithm selected.
Digest(alg, bytes) == <<"digest", alg, bytes>>

\* The hardware works the packet off: a memcopy writes the first bufsize
\* bytes of the source to the destination, a hash with hash-term writes the
\* digest of the first bufsize bytes of the source to the payload; the
\* status gets the done bit and the tag of control0; the semaphore is
\* decremented if the packet says so.
ProgHwRun ==
    /\ prog.phase = "submitted" /\ prog.hw.cur[0] = 1
    /\ LET pk == prog.packet
           count == IF pk.bufsize <= Len(prog.src) THEN pk.bufsize ELSE Len(prog.src)
       IN  prog' = [prog EXCEPT
              !.dst = IF "EnableMemcopy" \in pk.flags /\ pk.source = "src" /\ pk.dest = "dst"
                      THEN [i \in 1..Len(@) |-> IF i <= count THEN prog.src[i] ELSE @[i]]
                      ELSE @,
              !.payl = IF "EnableHash" \in pk.flags /\ "HashTerm" \in pk.flags
                          /\ pk.source = "src" /\ pk.payload = "payl"
                       THEN Digest(pk.hash, SubSeq(prog.src, 1, count))
                       ELSE @,
              !.packet.status = [bits |-> StDone, error_code |-> 0, tag |-> pk.tag],
              !.hw.sema[0] = IF "DecrSemaphore" \in pk.flags /\ @ > 0 THEN @ - 1 ELSE @,
              !.hw.cur[0] = 0]
    /\ UNCHANGED <<dec, life, execVars>>

\* task.poll() (copy.rs:49, hash.rs:63; task.rs:192-205 for the frozen Task).
ProgPoll ==
    /\ prog.phase = "submitted"
    /\ prog' = [prog EXCEPT !.res = Status_poll(prog.packet.status)]
    /\ UNCHANGED <<dec, life, execVars>>

ProgNext == ProgBuild \/ ProgSubmit \/ ProgHwRun \/ ProgPoll

SpecProg == ProgInit /\ [][ProgNext]_vars

\* C14: the value a successful poll returns is the tag the caller chose,
\* whichever API chose it: the tag is in the tag byte of control0 once the
\* packet is built, and a poll that returns Ok returns that tag.
C14_PollReturnsChosenTag ==
    /\ prog.phase \in {"built", "submitted"} => prog.packet.tag = prog.t
    /\ prog.res.kind = "Ok" => prog.res.val = prog.t

\* What C14 says of the builder's tag alone.
BuilderTagEchoed == prog.kind \in {"copy", "hash"} => C14_PollReturnsChosenTag

\* C17: the copy program that polls until a terminal result ends with
\* success (carrying its tag), the destination equal to the source byte for
\* byte, and Ch0 idle again.
C17_CopyEndToEnd ==
    (prog.kind = "copy" /\ IsTerminal(prog.res)) =>
        /\ prog.res = ResOk(prog.t)
        /\ prog.dst = prog.src
        /\ ~busy(prog.hw, 0)

\* The copy program has polled a terminal result for a buffer of the
\* longest length, with a nonzero tag.
C17_Witness ==
    /\ prog.kind = "copy" /\ IsTerminal(prog.res)
    /\ Len(prog.src) = MaxLen /\ prog.dst = Filled(MaxLen) /\ prog.t = 7

\* C18: the hash packet of the hash program describes the whole source: its
\* byte count is the length of the source, its source pointer is the source
\* buffer and its payload pointer the digest buffer; so once a poll has
\* returned a terminal result the payload holds the CRC32 digest of the
\* source.
C18_HashCoversSource ==
    /\ (prog.kind = "hash" /\ prog.phase \in {"built", "submitted"}) =>
          /\ prog.packet.bufsize = Len(prog.src)
          /\ prog.packet.source = "src" /\ prog.packet.payload = "payl"
    /\ (prog.kind = "hash" /\ IsTerminal(prog.res)) =>
          prog.payl = Digest("Crc32", prog.src)

\* ---------------------------------------------------------------------------
\* Ownership of the peripheral and release of an executor (C19, C20): dcp.rs
\* and the executors of ex.rs.
\* life = [taken   (the take-once flag of the register access layer),
\*         handles (the live handles, each [st, from, ch, pc]),
\*         clocked, enabled (the channels enabled in CHANNELCTRL),
\*         sema    (the semaphore of each channel),
\*         ctxsw, context (CTRL.ENABLE_CONTEXT_SWITCHING, the CONTEXT register),
\*         writes  (the register writes of the most recent Scheduler::new),
\*         released (the channels a SingleChannel::release has disabled),
\*         last    (the most recent take or disable)]
\* ---------------------------------------------------------------------------

\* Handles the model can hold at once; the code never holds more than one.
MaxHandles == 2

\* A handle: its type, the type it was made from, the channel of a
\* SingleChannel, and the position inside release once release was called.
Handle(st, from, ch, pc) == [st |-> st, from |-> from, ch |-> ch, pc |-> pc]
\* waited: release has read a nonzero semaphore.
Running == [at |-> "run", k |-> 0, waited |-> FALSE]
At(at, k, waited) == [at |-> at, k |-> k, waited |-> waited]

LifeLast(op, res, held, ch, sema) ==
    [op |-> op, res |-> res, held |-> held, ch |-> ch, sema |-> sema]

\* A take that hands out the instance whatever the flag says.
ral_take_Always(taken) == TRUE

\* dcp::DCP::take() of the register access layer: Some exactly when the
\* instance is not taken.
ral_take(taken) == ~taken

\* A release that reads the semaphore once and goes on whatever it read.
release_read_NoWait(h, isBusy) ==
    IF h.st = "SingleChannel" \/ h.pc.k = NChannels - 1
    THEN At("disable", IF h.st = "SingleChannel" THEN h.ch ELSE 0, h.pc.waited \/ isBusy)
    ELSE At("read", h.pc.k + 1, h.pc.waited \/ isBusy)

\* One read of a semaphore inside release. SingleChannel (ex.rs:75): busy
\* reads again, idle goes on to disable. Scheduler (ex.rs:126-131, 135):
\* busy() reads Ch0..Ch3 in turn and is true at the first busy one, which
\* starts the loop again at Ch0; four idle reads go on to the disables.
release_read(h, isBusy) ==
    IF h.st = "SingleChannel"
    THEN IF isBusy THEN At("read", h.ch, TRUE) ELSE At("disable", h.ch, h.pc.waited)
    ELSE IF isBusy THEN At("read", 0, TRUE)
         ELSE IF h.pc.k = NChannels - 1 THEN At("disable", 0, h.pc.waited)
         ELSE At("read", h.pc.k + 1, h.pc.waited)

Replace(hs, i, h) == [hs EXCEPT ![i] = h]
Remove(hs, i) == SubSeq(hs, 1, i - 1) \o SubSeq(hs, i + 1, Len(hs))
Executors == {"SingleChannel", "Scheduler"}

LifeInit ==
    /\ life = [taken |-> FALSE, handles |-> <<>>, clocked |-> FALSE,
               enabled |-> {}, sema |-> [c \in Chans |-> 0],
               ctxsw |-> FALSE, context |-> "none", writes |-> <<>>,
               released |-> {},
               last |-> LifeLast("none", "none", FALSE, 0, 0)]
    /\ dec = Unused /\ prog = Unused
    /\ ExecUnused

\* Unclocked::take, dcp.rs:19-21
Unclocked_take ==
    /\ IF ral_take(life.taken)
       THEN /\ Len(life.handles) < MaxHandles
            /\ life' = [life EXCEPT
                  !.taken = TRUE,
                  !.handles = Append(@, Handle("Unclocked", "none", 0, Running)),
                  !.last = LifeLast("take", "Some", life.handles # <<>>, 0, 0)]
       ELSE life' = [life EXCEPT
                  !.last = LifeLast("take", "None", life.handles # <<>>, 0, 0)]
    /\ UNCHANGED <<dec, prog, execVars>>

\* Unclocked::clock, dcp.rs:24-29
Unclocked_clock(i) ==
    /\ life.handles[i].st = "Unclocked"
    /\ life' = [life EXCEPT
          !.clocked = TRUE,
          !.handles = Replace(@, i, Handle("Builder", "Unclocked", 0, Running))]
    /\ UNCHANGED <<dec, prog, execVars>>

\* Unclocked::release, dcp.rs:32-34
Unclocked_release(i) ==
    /\ life.handles[i].st = "Unclocked"
    /\ life' = [life EXCEPT
          !.taken = FALSE,
          !.handles = Remove(@, i),
          !.last = LifeLast("release", "none", TRUE, 0, 0)]
    /\ UNCHANGED <<dec, prog, execVars>>

\* Builder::build, dcp.rs:53-72
Builder_build(i) ==
    /\ life.handles[i].st = "Builder"
    /\ life' = [life EXCEPT
          !.handles = Replace(@, i, Handle("DCP", "Builder", 0, Running))]
    /\ UNCHANGED <<dec, prog, execVars>>

\* DCP::unclock, dcp.rs:80-90
DCP_unclock(i) ==
    /\ life.handles[i].st = "DCP"
    /\ life' = [life EXCEPT
          !.clocked = FALSE,
          !.handles = Replace(@, i, Handle("Unclocked", "DCP", 0, Running))]
    /\ UNCHANGED <<dec, prog, execVars>>

\* A take that binds the channel without looking at its enable bit.
SingleChannel_take_Unchecked(i, c) ==
    /\ life.handles[i].st = "DCP"
    /\ life' = [life EXCEPT
          !.enabled = @ \cup {c},
          !.handles = Replace(@, i, Handle("SingleChannel", "DCP", c, Running)),
          !.last = LifeLast("bind", "Some", c \in life.enabled, c, 0)]
    /\ UNCHANGED <<dec, prog, execVars>>

\* SingleChannel::<C>::take, ex.rs:59-70: None (and the DCP dropped) if the
\* channel is enabled already, else the channel is enabled.
SingleChannel_take(i, c) ==
    /\ life.handles[i].st = "DCP"
    /\ IF c \in life.enabled
       THEN life' = [life EXCEPT
               !.handles = Remove(@, i),
               !.last = LifeLast("bind", "None", TRUE, c, 0)]
       ELSE life' = [life EXCEPT
               !.enabled = @ \cup {c},
               !.handles = Replace(@, i, Handle("SingleChannel", "DCP", c, Running)),
               !.last = LifeLast("bind", "Some", FALSE, c, 0)]
    /\ UNCHANGED <<dec, prog, execVars>>

\* The DCP is moved out of a SingleChannel through its public field
\* (pub inst: DCP, ex.rs:54): the executor can no longer be used or
\* released, and the channel it enabled stays enabled.
SingleChannel_inst(i) ==
    /\ life.handles[i].st = "SingleChannel" /\ life.handles[i].pc = Running
    /\ life' = [life EXCEPT
          !.handles = Replace(@, i, Handle("DCP", "SingleChannel", 0, Running)),
          !.last = LifeLast("inst", "none", TRUE, life.handles[i].ch, 0)]
    /\ UNCHANGED <<dec, prog, execVars>>

\* The register writes of Scheduler::new in program order, ex.rs:109-121
\* (ex/mod.rs:99-105 is the same): Ch0..Ch3::enable (CHANNELCTRL_SET of the
\* channel's bit, then its status clear), CTRL_SET of
\* ENABLE_CONTEXT_SWITCHING, CONTEXT = the address of the buffer.
Scheduler_new_writes ==
    <<RegWrite("CHANNELCTRL_SET", 0, 1), RegWrite("STAT_CLR", 0, 0),
      RegWrite("CHANNELCTRL_SET", 1, 1), RegWrite("STAT_CLR", 1, 0),
      RegWrite("CHANNELCTRL_SET", 2, 1), RegWrite("STAT_CLR", 2, 0),
      RegWrite("CHANNELCTRL_SET", 3, 1), RegWrite("STAT_CLR", 3, 0),
      RegWrite("CTRL_SET", 0, "ENABLE_CONTEXT_SWITCHING"),
      RegWrite("CONTEXT", 0, "buf")>>

\* The channels enabled, the context-switching bit and the CONTEXT register
\* after the first k writes of the sequence ws, starting from no channel
\* enabled, context switching off and CONTEXT unset.
EnabledAfter(ws, k) == {ws[j].ch : j \in {x \in 1..k : ws[x].reg = "CHANNELCTRL_SET"}}
CtxswAfter(ws, k) == \E j \in 1..k : ws[j].reg = "CTRL_SET"
ContextAfter(ws, k) == IF \E j \in 1..k : ws[j].reg = "CONTEXT" THEN "buf" ELSE "none"

\* Scheduler::new, ex.rs:108-123
Scheduler_new(i) ==
    /\ life.handles[i].st = "DCP"
    /\ life' = [life EXCEPT
          !.writes = Scheduler_new_writes,
          !.enabled = EnabledAfter(Scheduler_new_writes, Len(Scheduler_new_writes)),
          !.ctxsw = CtxswAfter(Scheduler_new_writes, Len(Scheduler_new_writes)),
          !.context = ContextAfter(Scheduler_new_writes, Len(Scheduler_new_writes)),
          !.handles = Replace(@, i, Handle("Scheduler", "DCP", 0, Running))]
    /\ UNCHANGED <<dec, prog, execVars>>

\* A submission through an executor that has not been released: the
\* semaphore of the channel inner_exec picks goes to 1 (ex.rs:83-95,
\* 146-165); a full executor changes nothing.
LifeSubmit(i) ==
    /\ life.handles[i].st \in Executors /\ life.handles[i].pc = Running
    /\ LET h == life.handles[i]
           idle == IF h.st = "SingleChannel"
                   THEN {c \in {h.ch} : ~busy(life, c)}
                   ELSE {c \in Chans : ~busy(life, c)}
       IN  /\ idle # {}
           /\ LET c == CHOOSE x \in idle : \A y \in idle : y <= x
              IN  life' = [life EXCEPT !.sema[c] = 1,
                                       !.last = LifeLast("submit", "Ok", TRUE, c, 0)]
    /\ UNCHANGED <<dec, prog, execVars>>

\* The hardware finishes the work of an enabled channel.
LifeHw(c) ==
    /\ c \in life.enabled /\ life.sema[c] > 0
    /\ life' = [life EXCEPT !.sema[c] = @ - 1]
    /\ UNCHANGED <<dec, prog, execVars>>

\* release(self) is called: the executor is consumed (ex.rs:73, 134).
ReleaseCall(i) ==
    /\ life.handles[i].st \in Executors /\ life.handles[i].pc = Running
    /\ LET h == life.handles[i]
       IN  life' = [life EXCEPT
              !.handles = Replace(@, i,
                  [h EXCEPT !.pc = At("read", IF h.st = "SingleChannel" THEN h.ch ELSE 0, FALSE)])]
    /\ UNCHANGED <<dec, prog, execVars>>

\* One read of a semaphore by the loop of release (ex.rs:75, 135).
ReleaseRead(i) ==
    /\ life.handles[i].st \in Executors /\ life.handles[i].pc.at = "read"
    /\ LET h == life.handles[i]
       IN  life' = [life EXCEPT
              !.handles = Replace(@, i,
                  [h EXCEPT !.pc = release_read(h, busy(life, h.pc.k))])]
    /\ UNCHANGED <<dec, prog, execVars>>

\* One C::disable of release (ex.rs:77, 137-140); after the last one the
\* DCP is handed back (ex.rs:79, 142).
ReleaseDisable(i) ==
    /\ life.handles[i].st \in Executors /\ life.handles[i].pc.at = "disable"
    /\ LET h == life.handles[i]
           c == h.pc.k
           final == h.st = "SingleChannel" \/ c = NChannels - 1
       IN  life' = [life EXCEPT
              !.enabled = @ \ {c},
              !.released = IF h.st = "SingleChannel" THEN @ \cup {c} ELSE @,
              !.last = LifeLast("disable", IF h.pc.waited THEN "waited" ELSE "direct",
                                TRUE, c, life.sema[c]),
              !.handles = Replace(@, i,
                  IF final THEN Handle("DCP", h.st, 0, Running)
                  ELSE [h EXCEPT !.pc = At("disable", c + 1, h.pc.waited)])]
    /\ UNCHANGED <<dec, prog, execVars>>

LifeNext ==
    \/ Unclocked_take
    \/ \E i \in 1..Len(life.handles) :
          \/ Unclocked_clock(i)
          \/ Unclocked_release(i)
          \/ Builder_build(i)
          \/ DCP_unclock(i)
          \/ \E c \in Chans : SingleChannel_take(i, c)
          \/ SingleChannel_inst(i)
          \/ Scheduler_new(i)
          \/ LifeSubmit(i)
          \/ ReleaseCall(i)
          \/ ReleaseRead(i)
          \/ ReleaseDisable(i)
    \/ \E c \in Chans : LifeHw(c)

SpecLife == LifeInit /\ [][LifeNext]_vars

\* The order in which a handle changes type.
HandleOrder ==
    {<<"none", "Unclocked">>, <<"Unclocked", "Builder">>, <<"Builder", "DCP">>,
     <<"DCP", "SingleChannel">>, <<"DCP", "Scheduler">>,
     <<"SingleChannel", "DCP">>, <<"Scheduler", "DCP">>, <<"DCP", "Unclocked">>}

C20_DisableOnlyIdle ==
    /\ life.last.op = "disable" => life.last.sema = 0
    /\ \A i \in 1..Len(life.handles) :
          LET h == life.handles[i]
          IN  /\ (h.st = "Scheduler" /\ h.pc.at = "read") =>
                    \A c \in Chans : c < h.pc.k => life.sema[c] = 0
              /\ h.pc.at = "disable" =>
                    \A c \in (IF h.st = "SingleChannel" THEN {h.ch} ELSE Chans) :
                        life.sema[c] = 0

\* A Scheduler whose release was called with work in flight, and read a
\* nonzero semaphore, has disabled its last channel and handed the DCP back.
C20_Witness ==
    /\ life.last.op = "disable" /\ life.last.ch = NChannels - 1
    /\ life.last.res = "waited"
    /\ life.handles = <<Handle("DCP", "Scheduler", 0, Running)>>
    /\ life.enabled = {}

\* C31: a channel is bound by at most one SingleChannel at a time:
\* SingleChannel::take returns None exactly when the channel is enabled
\* already and otherwise enables it and returns the executor of that
\* channel; a live SingleChannel has its channel enabled and is the only
\* handle; release has disabled the channel when it hands the DCP back, so
\* that a take on the same channel succeeds again.
C31_OneBinderPerChannel ==
    /\ life.last.op = "bind" => (life.last.res = "None" <=> life.last.held)
    /\ (life.last.op = "bind" /\ life.last.res = "Some") =>
          /\ Len(life.handles) = 1
          /\ life.handles[1].st = "SingleChannel" /\ life.handles[1].ch = life.last.ch
    /\ (life.last.op = "bind" /\ life.last.res = "None") => life.handles = <<>>
    /\ \A i \in 1..Len(life.handles) :
          life.handles[i].st = "SingleChannel" =>
              /\ life.handles[i].ch \in life.enabled
              /\ \A j \in 1..Len(life.handles) :
                    (life.handles[j].st = "SingleChannel"
                        /\ life.handles[j].ch = life.handles[i].ch) => j = i
    /\ (life.last.op = "disable" /\ life.handles # <<>>
            /\ life.handles[1] = Handle("DCP", "SingleChannel", 0, Running)) =>
          life.last.ch \notin life.enabled

\* A take on a channel that a release has disabled before has returned the
\* executor.
C31_Witness ==
    /\ life.last.op = "bind" /\ life.last.res = "Some"
    /\ life.last.ch \in life.released

\* A take on a channel that is enabled already has returned None.
TakeOfEnabledChannelRefused ==
    life.last.op = "bind" /\ life.last.res = "None" /\ life.last.ch \in life.enabled

\* ---------------------------------------------------------------------------
\* One chain per SingleChannel (C21)
\* ---------------------------------------------------------------------------

\* C21: under a SingleChannel the semaphore of the bound channel is always 0
\* or 1, and a submission arms the channel only when the channel is idle and
\* works on no packet: a second chain is never armed before the first has
\* completed.
C21_OneOutstandingChain ==
    [][exKind = "single" =>
          /\ hw'.sema[chan] \in {0, 1}
          /\ (Submits(last') /\ Succeeded(last')) =>
                (~busy(hw, chan) /\ hw.cur[chan] = 0)]_vars

\* A SingleChannel has armed its channel with a second packet after the
\* first one, submitted earlier on the same channel, has completed.
C21_Witness ==
    /\ exKind = "single"
    /\ Submits(last) /\ Succeeded(last) /\ last.pk > 1
    /\ pkt[1].status.bits # 0 /\ hw.cur[chan] = last.pk /\ hw.sema[chan] = 1

\* C22: whenever more than one channel is enabled, context switching is
\* enabled and CONTEXT holds the address of the scheduler's buffer: in every
\* state between two operations, and after every single register write of
\* Scheduler::new.
C22_ContextBeforeChannels ==
    /\ Cardinality(life.enabled) > 1 => (life.ctxsw /\ life.context = "buf")
    /\ \A k \in 1..Len(life.writes) :
          Cardinality(EnabledAfter(life.writes, k)) > 1 =>
              (CtxswAfter(life.writes, k) /\ ContextAfter(life.writes, k) = "buf")

\* What C22 says of the state Scheduler::new returns in.
ContextWhenSchedulerBuilt ==
    \A i \in 1..Len(life.handles) :
        (life.handles[i].st = "Scheduler" /\ life.handles[i].pc = Running) =>
            (life.enabled = Chans /\ life.ctxsw /\ life.context = "buf")

\* ---------------------------------------------------------------------------
\* Packet construction, field by field (C23, C25..C29), with the three APIs
\* of the repository: "builder" is PacketBuilder of packet/builder.rs
\* (new(), then chained methods), "mod" is PacketBuilder of packet/mod.rs
\* (new(buffers), then &mut self methods), "blank" is BlankTask of task.rs
\* (set_tag, set_buffers).
\* prog = [phase, api, kind, raw (the packet), pre (the packet before the
\*         most recent call), lastm (the most recent call and its
\*         arguments), n (the number of method calls made)]
\* ---------------------------------------------------------------------------

\* Method calls made on one builder.
MaxSteps == 2

Kinds == {"Memcopy", "Blit", "Cipher", "Hash", "MemcopyHash", "CipherHash"}
HasHash == {"Hash", "MemcopyHash", "CipherHash"}
HasCrypt == {"Cipher", "CipherHash"}

\* The bit of control0 each flag setter stores to, raw.rs:72-97.
Control0Bits ==
    [InterruptEnable |-> 0, DecrSemaphore |-> 1, Chain |-> 2, ChainContinuous |-> 3,
     EnableMemcopy |-> 4, EnableCipher |-> 5, EnableHash |-> 6, EnableBlit |-> 7,
     CipherEncrypt |-> 8, CipherInit |-> 9, OtpKey |-> 10, PayloadKey |-> 11,
     HashInit |-> 12, HashTerm |-> 13, HashCheck |-> 14, HashOutput |-> 15,
     ConstantFill |-> 16, TestSemaIrq |-> 17, KeyByteSwap |-> 18, KeyWordSwap |-> 19,
     InputByteSwap |-> 20, InputWordSwap |-> 21, OutputByteSwap |-> 22,
     OutputWordSwap |-> 23]

\* Control0::memcopy() .. cipher_hash(), raw.rs:37-46, 63-70: the default
\* (no flag) with the 4-bit preset stored to bits 4..8.
Control0_new(kind) ==
    LET x == CASE kind = "Memcopy" -> 1 [] kind = "Blit" -> 8 [] kind = "Cipher" -> 2
               [] kind = "Hash" -> 4 [] kind = "MemcopyHash" -> 5 [] kind = "CipherHash" -> 6
    IN  {f \in DOMAIN Control0Bits :
            /\ Control0Bits[f] \in 4..7
            /\ (x \div (2 ^ (Control0Bits[f] - 4))) % 2 = 1}

\* The flags PacketBuilder<T>::new() of packet/builder.rs sets on the
\* zeroed packet, builder.rs:103-221.
PacketBuilder_new_flags(kind) ==
    CASE kind = "Cipher"      -> {"EnableCipher", "PayloadKey"}
      [] kind = "Hash"        -> {"EnableHash"}
      [] kind = "Memcopy"     -> {"EnableMemcopy"}
      [] kind = "Blit"        -> {"EnableBlit"}
      [] kind = "MemcopyHash" -> {"EnableHash", "EnableMemcopy"}
      [] kind = "CipherHash"  -> {"EnableCipher", "EnableMemcopy"}

\* The width-bit field of control1 that starts at bit lo.
Control1_field(c1, lo, width) == (c1 \div (2 ^ lo)) % (2 ^ width)

\* A store that writes the field and clears the rest of control1.
Control1_store_Clobber(c1, lo, width, bits) == (bits % (2 ^ width)) * (2 ^ lo)

\* self.0[lo..lo+width].store(bits), raw.rs:106-133: the field is replaced,
\* the other bits of control1 stay.
Control1_store(c1, lo, width, bits) ==
    c1 - Control1_field(c1, lo, width) * (2 ^ lo) + (bits % (2 ^ width)) * (2 ^ lo)

\* HashSelect::ctl1 and CipherSelect::ctl1 with the constants of
\* ops/mod.rs:47-97, and the control1 of CipherHash::new
\* (packet/mod.rs:154-157).
HashSelect_ctl1(c1, h) ==
    Control1_store(c1, 16, 4, CASE h = "Sha1" -> 0 [] h = "Sha256" -> 2 [] h = "Crc32" -> 1)
CipherSelect_ctl1(c1, c) ==
    Control1_store(Control1_store(c1, 0, 4, 0), 4, 4,
                   CASE c = "Aes128Ecb" -> 0 [] c = "Aes128Cbc" -> 1)

\* A height rounded up to the next whole line.
Framebuffer_height_RoundUp(len, width) == ((len % 65536) + width - 1) \div width

\* Framebuffer::height, ops/config.rs:28-32: self.pointer.len() as u16 / self.width
Framebuffer_height(len, width) == (len % 65536) \div width

\* BlitSize { width, height } read as the 32 bits of the bufsize union,
\* raw.rs:150-166.
BlitSize(width, height) == (width % 65536) + 65536 * (height % 65536)

\* CryptKey into u8, ops/config.rs:63-72
CryptKey_into(key, n) ==
    CASE key = "Payload" -> 0 [] key = "KeyRam" -> n [] key = "Unique" -> 254
      [] key = "Otp" -> 255

\* PacketBuilder<T>::new of packet/mod.rs (17-185) for buffers that pass the
\* asserts: a is [form (of the source), len, width, hash, cipher].
PacketBuilder_mod_new(kind, a) ==
    LET cf == IF a.form = "constant" THEN {"ConstantFill"} ELSE {}
        base == [ZeroedPacket EXCEPT !.flags = Control0_new(kind)]
    IN  CASE kind = "Memcopy" ->
               [base EXCEPT !.flags = @ \cup cf, !.source = a.form, !.dest = "dst",
                            !.bufsize = a.len]
          [] kind = "Blit" ->
               [base EXCEPT !.flags = @ \cup cf, !.ctl1 = Control1_store(0, 0, 17, a.width),
                            !.source = a.form, !.dest = "dst",
                            !.bufsize = BlitSize(a.width, Framebuffer_height(a.len, a.width))]
          [] kind = "Cipher" ->
               [base EXCEPT !.ctl1 = CipherSelect_ctl1(0, a.cipher), !.source = "src",
                            !.dest = "dst", !.bufsize = a.len, !.payload = "payl"]
          [] kind = "Hash" ->
               [base EXCEPT !.ctl1 = HashSelect_ctl1(0, a.hash), !.source = "src",
                            !.dest = "null", !.payload = "payl", !.bufsize = a.len]
          [] kind = "MemcopyHash" ->
               [base EXCEPT !.ctl1 = HashSelect_ctl1(0, a.hash), !.source = "src",
                            !.dest = "null", !.payload = "payl", !.bufsize = a.len]
          [] kind = "CipherHash" ->
               [base EXCEPT !.ctl1 = HashSelect_ctl1(CipherSelect_ctl1(0, a.cipher), a.hash),
                            !.source = "src", !.dest = "dst", !.payload = "payl",
                            !.bufsize = a.len]

\* BlankTask<O>::set_buffers, task.rs:38-162, for buffers that pass the
\* asserts.
BlankTask_set_buffers(kind, raw, a) ==
    LET cf == IF a.form = "constant" THEN {"ConstantFill"} ELSE {}
    IN  CASE kind = "Memcopy" ->
               [raw EXCEPT !.flags = @ \cup cf, !.source = a.form, !.dest = "dst",
                           !.bufsize = a.len]
          [] kind = "Blit" ->
               [raw EXCEPT !.flags = @ \cup cf, !.ctl1 = Control1_store(0, 0, 17, a.width),
                           !.source = a.form, !.dest = "dst",
                           !.bufsize = BlitSize(a.width, Framebuffer_height(a.len, a.width))]
          [] kind \in {"Cipher", "CipherHash"} ->
               [raw EXCEPT !.source = "src", !.dest = "dst", !.bufsize = a.len,
                           !.payload = "payl"]
          [] kind = "Hash" ->
               [raw EXCEPT !.source = "src", !.bufsize = a.len, !.payload = "payl"]
          [] kind = "MemcopyHash" ->
               [raw EXCEPT !.flags = @ \cup cf, !.source = a.form, !.dest = "dst",
                           !.payload = "payl"]

\* SwapConfig to flags, builder.rs:56-81 (input_swap, output_swap): the word
\* and byte flag of the group named.
SwapFlags(conf, word, byte) ==
    CASE conf = "Keep" -> {} [] conf = "WordSwap" -> {word} [] conf = "ByteSwap" -> {byte}
      [] conf = "WordByteSwap" -> {word, byte}

PacketBuilder_input_swap(raw, conf) ==
    [raw EXCEPT !.flags = @ \cup SwapFlags(conf, "InputWordSwap", "InputByteSwap")]
PacketBuilder_output_swap(raw, conf) ==
    [raw EXCEPT !.flags = @ \cup SwapFlags(conf, "OutputWordSwap", "OutputByteSwap")]

\* PacketBuilder<T: HasCrypt>::key_swap, builder.rs:300-311: the arms name
\* Control0Flag::OutputWordSwap and Control0Flag::OutputByteSwap.
PacketBuilder_key_swap(raw, conf) ==
    [raw EXCEPT !.flags = @ \cup SwapFlags(conf, "OutputWordSwap", "OutputByteSwap")]

\* PacketBuilder<Blit>::framebuffer, builder.rs:170-180
PacketBuilder_framebuffer(raw, len, width) ==
    [raw EXCEPT !.dest = "dst",
                !.bufsize = BlitSize(width, (len \div width) % 65536),
                !.ctl1 = len % 65536]

\* PacketBuilder<T: HasCrypt>::set_key, packet/mod.rs:203-211
PacketBuilder_set_key(raw, key, n) ==
    [raw EXCEPT !.flags = @ \cup (CASE key = "Payload" -> {"PayloadKey"}
                                    [] key = "KeyRam" -> {}
                                    [] OTHER -> {"OtpKey"}),
                !.ctl1 = Control1_store(@, 8, 8, CryptKey_into(key, n))]

\* A call and its arguments; the arguments a call does not take are left at
\* these values.
NoMethod ==
    [name |-> "none", form |-> "src", slen |-> 4, len |-> 4, width |-> 4, conf |-> "Keep",
     key |-> "Payload", n |-> 0, hash |-> "Sha1", cipher |-> "Aes128Ecb"]
Named(names) == {[NoMethod EXCEPT !.name = x] : x \in names}

SwapConfigs == {"Keep", "WordSwap", "ByteSwap", "WordByteSwap"}
BufLens == {4, 6, 65540, 524320}
SrcLens == {4, 6}
Widths == {0, 4, 8}
\* Buffers: the form of the source and the length of a source buffer, the
\* length of the destination, the row width of a blit.
Buffers(name) ==
    {[NoMethod EXCEPT !.name = name, !.form = f, !.slen = sl, !.len = l, !.width = w] :
        f \in {"src", "constant"}, sl \in SrcLens, l \in BufLens, w \in Widths}
\* The arguments of new of packet/mod.rs.
NewArgs ==
    {[b EXCEPT !.hash = h, !.cipher = c] : b \in Buffers("new"), h \in Hashes, c \in Ciphers}

\* The methods each API offers on a packet of the kind, with the arguments
\* tried: builder.rs:13-95, 167-180, 229-312; packet/mod.rs:202-231;
\* task.rs:23-26, 38-162.
Methods(api, kind) ==
    CASE api = "builder" ->
            Named({"payload", "tag", "decr_semaphore", "interrupt_enable"})
            \cup {[NoMethod EXCEPT !.name = "source", !.form = f, !.slen = sl] :
                    f \in {"src", "constant"}, sl \in SrcLens}
            \cup {[NoMethod EXCEPT !.name = "dest", !.len = l] : l \in BufLens}
            \cup {[NoMethod EXCEPT !.name = nm, !.conf = c] :
                    nm \in {"input_swap", "output_swap"}, c \in SwapConfigs}
            \cup (IF kind = "Blit" THEN Buffers("framebuffer") ELSE {})
            \cup (IF kind \in HasHash THEN Named({"hash_init", "hash_term"}) ELSE {})
            \cup (IF kind \in HasCrypt
                  THEN Named({"cipher_init", "encrypt"})
                       \cup {[NoMethod EXCEPT !.name = "key_swap", !.conf = c] : c \in SwapConfigs}
                  ELSE {})
      [] api = "mod" ->
            Named({"input_big_endian", "output_big_endian", "key_big_endian",
                   "chain_continuous", "decr_semaphore"})
            \cup (IF kind \in HasHash
                  THEN Named({"hash_init", "hash_term", "check_hash", "hash_output"}) ELSE {})
            \cup (IF kind \in HasCrypt
                  THEN Named({"encrypt", "cipher_init"})
                       \cup {[NoMethod EXCEPT !.name = "set_key", !.key = k, !.n = n] :
                               k \in {"Payload", "KeyRam", "Unique", "Otp"}, n \in {0, 3, 254, 255}}
                  ELSE {})
      [] api = "blank" ->
            {[NoMethod EXCEPT !.name = "set_tag", !.n = 7]} \cup Buffers("set_buffers")

\* The flags a method sets that only sets flags.
FlagsOf(name) ==
    CASE name = "decr_semaphore" -> {"DecrSemaphore"}
      [] name = "interrupt_enable" -> {"InterruptEnable"}
      [] name = "chain_continuous" -> {"ChainContinuous"}
      [] name = "hash_init" -> {"HashInit"}
      [] name = "hash_term" -> {"HashTerm"}
      [] name = "check_hash" -> {"HashCheck"}
      [] name = "hash_output" -> {"HashOutput"}
      [] name = "cipher_init" -> {"CipherInit"}
      [] name = "encrypt" -> {"CipherEncrypt"}
      [] name = "input_big_endian" -> {"InputWordSwap", "InputByteSwap"}
      [] name = "output_big_endian" -> {"OutputWordSwap", "OutputByteSwap"}
      [] name = "key_big_endian" -> {"KeyWordSwap", "KeyByteSwap"}

\* The packet after the call m on the packet raw.
Apply(kind, raw, m) ==
    CASE m.name = "source"      -> PacketBuilder_source(raw, m.form)
      [] m.name = "dest"        -> PacketBuilder_dest(raw, "dst", m.len)
      [] m.name = "payload"     -> PacketBuilder_payload(raw, "payl")
      [] m.name = "tag"         -> PacketBuilder_tag(raw, 7)
      [] m.name = "input_swap"  -> PacketBuilder_input_swap(raw, m.conf)
      [] m.name = "output_swap" -> PacketBuilder_output_swap(raw, m.conf)
      [] m.name = "key_swap"    -> PacketBuilder_key_swap(raw, m.conf)
      [] m.name = "framebuffer" -> PacketBuilder_framebuffer(raw, m.len, m.width)
      [] m.name = "set_key"     -> PacketBuilder_set_key(raw, m.key, m.n)
      [] m.name = "set_tag"     -> BlankTask_set_tag(raw, m.n)
      [] m.name = "set_buffers" -> BlankTask_set_buffers(kind, raw, m)
      [] OTHER -> [raw EXCEPT !.flags = @ \cup FlagsOf(m.name)]

\* The call m sets the source, the destination, of the packet.
SetsSource(api, m) ==
    \/ api = "builder" /\ m.name = "source"
    \/ api = "mod" /\ m.name = "new"
    \/ api = "blank" /\ m.name = "set_buffers"
SetsDest(api, m) ==
    \/ api = "builder" /\ m.name \in {"dest", "framebuffer"}
    \/ api = "mod" /\ m.name = "new"
    \/ api = "blank" /\ m.name = "set_buffers"

\* The call m divides by a row width of 0 and panics: Framebuffer::height
\* (ops/config.rs:29-31, called by packet/mod.rs:59 and task.rs:72) and
\* PacketBuilder<Blit>::framebuffer (builder.rs:175).
DivPanics(api, kind, m) ==
    kind = "Blit" /\ m.width = 0 /\ SetsDest(api, m) /\ m.name # "dest"

\* The state after the call m that yields the packet raw. srclen and dstlen
\* are the lengths of the buffers the packet's source and dest point to.
Called(p, m, raw) ==
    IF DivPanics(p.api, p.kind, m)
    THEN [p EXCEPT !.phase = "panicked", !.lastm = m]
    ELSE [p EXCEPT !.phase = "made", !.lastm = m, !.pre = p.raw, !.raw = raw,
                   !.srclen = IF SetsSource(p.api, m)
                              THEN (IF m.form = "src" THEN m.slen ELSE 0) ELSE @,
                   !.dstlen = IF SetsDest(p.api, m) THEN m.len ELSE @]

PkInit ==
    /\ \E api \in {"builder", "mod", "blank"}, kind \in Kinds :
          prog = [phase |-> "start", api |-> api, kind |-> kind, raw |-> ZeroedPacket,
                  pre |-> ZeroedPacket, lastm |-> NoMethod, n |-> 0,
                  srclen |-> 0, dstlen |-> 0]
    /\ dec = Unused /\ life = Unused
    /\ ExecUnused

\* The constructor: PacketBuilder::new() of builder.rs, PacketBuilder::new
\* of packet/mod.rs with its buffers, or a blank task of the operation
\* (whose control0 is that of its operation).
PkNew ==
    /\ prog.phase = "start"
    /\ \E a \in (IF prog.api = "mod" THEN NewArgs ELSE Named({"new"})) :
          /\ prog' = [Called(prog, a,
                CASE prog.api = "builder" ->
                        [ZeroedPacket EXCEPT !.flags = PacketBuilder_new_flags(prog.kind)]
                  [] prog.api = "mod" -> PacketBuilder_mod_new(prog.kind, a)
                  [] prog.api = "blank" ->
                        [ZeroedPacket EXCEPT !.flags = Control0_new(prog.kind)])
                       EXCEPT !.pre = ZeroedPacket]
    /\ UNCHANGED <<dec, life, execVars>>

\* One method call on the builder or blank task.
PkMethod ==
    /\ prog.phase = "made" /\ prog.n < MaxSteps
    /\ \E m \in Methods(prog.api, prog.kind) :
          prog' = [Called(prog, m, Apply(prog.kind, prog.raw, m)) EXCEPT !.n = @ + 1]
    /\ UNCHANGED <<dec, life, execVars>>

PkNext == PkNew \/ PkMethod

SpecPacket == PkInit /\ [][PkNext]_vars

EnableFlags == {"EnableMemcopy", "EnableCipher", "EnableHash", "EnableBlit"}

\* The enable bits each kind of packet is to have.
EnableOf(kind) ==
    CASE kind = "Memcopy" -> {"EnableMemcopy"} [] kind = "Blit" -> {"EnableBlit"}
      [] kind = "Cipher" -> {"EnableCipher"} [] kind = "Hash" -> {"EnableHash"}
      [] kind = "MemcopyHash" -> {"EnableMemcopy", "EnableHash"}
      [] kind = "CipherHash" -> {"EnableCipher", "EnableHash"}

\* C23: a packet made by an operation-specific constructor has exactly the
\* enable bits of its kind, and keeps exactly those through every sequence
\* of builder methods.
C23_EnableBitsOfKind ==
    prog.phase = "made" => prog.raw.flags \cap EnableFlags = EnableOf(prog.kind)

\* What C23 says of the constructors of packet/mod.rs and the methods that
\* follow them.
EnableBitsOfKindMod == prog.api = "mod" => C23_EnableBitsOfKind

\* C25: in a copy or blit packet whose source has been set, the
\* constant-fill flag is set if and only if the source is a constant,
\* whichever API set the source.
C25_ConstantFillIffConstant ==
    (prog.phase = "made" /\ prog.kind \in {"Memcopy", "Blit"}
        /\ prog.raw.source # "null") =>
            ("ConstantFill" \in prog.raw.flags <=> prog.raw.source = "constant")

\* What C25 says of PacketBuilder::new of packet/mod.rs.
ConstantFillIffConstantMod == prog.api = "mod" => C25_ConstantFillIffConstant

\* The swap bits of a group for a configuration.
SwapBits(conf, group) ==
    CASE conf = "Keep" -> {}
      [] conf = "WordSwap" -> {group \o "WordSwap"}
      [] conf = "ByteSwap" -> {group \o "ByteSwap"}
      [] conf = "WordByteSwap" -> {group \o "WordSwap", group \o "ByteSwap"}

\* C26: input_swap, output_swap and key_swap set, for keep / word-swap /
\* byte-swap / word-and-byte-swap, no bit, the word-swap bit, the byte-swap
\* bit or both bits of their own group, and leave every other bit of
\* control0 as it was.
C26_SwapGroupsIndependent ==
    \A g \in {"Input", "Output", "Key"} :
        (prog.api = "builder"
            /\ prog.lastm.name = (CASE g = "Input" -> "input_swap"
                                    [] g = "Output" -> "output_swap"
                                    [] g = "Key" -> "key_swap")) =>
                prog.raw.flags = prog.pre.flags \cup SwapBits(prog.lastm.conf, g)

\* What C26 says of input_swap and output_swap.
InputOutputSwapIndependent ==
    prog.lastm.name # "key_swap" => C26_SwapGroupsIndependent

\* The key-select code and the key-source flag the claim names.
KeyCode(key, n) ==
    CASE key = "Payload" -> 0 [] key = "KeyRam" -> n [] key = "Unique" -> 254
      [] key = "Otp" -> 255
KeyFlag(key) ==
    CASE key = "Payload" -> {"PayloadKey"} [] key = "KeyRam" -> {}
      [] key \in {"Unique", "Otp"} -> {"OtpKey"}

C28_BlitGeometry ==
    (prog.phase = "made"
        /\ prog.kind = "Blit" /\ prog.lastm.name \in {"new", "framebuffer", "set_buffers"}
        /\ (prog.api = "builder" => prog.lastm.name = "framebuffer")
        /\ (prog.api = "blank" => prog.lastm.name = "set_buffers")) =>
            /\ prog.raw.ctl1 = prog.lastm.width
            /\ prog.raw.bufsize =
                  prog.lastm.width + 65536 * (prog.lastm.len \div prog.lastm.width)

\* What C28 says of framebuffers shorter than 65536 bytes built with
\* PacketBuilder<Blit>::new of packet/mod.rs or BlankTask<Blit>::set_buffers.
BlitGeometryShortBuffers ==
    (prog.api \in {"mod", "blank"} /\ prog.lastm.len < 65536) => C28_BlitGeometry

\* C29: in a packet built with its buffers, dest is null only for a
\* hash-only packet; a packet that enables copy, blit or cipher (copy+hash
\* included) has a dest, and unless it is a blit its bufsize is the length
\* of the buffer the hardware writes.
C29_DestOfWritingOperations ==
    (/\ prog.phase = "made"
     /\ \/ prog.api = "mod" /\ prog.lastm.name = "new"
        \/ prog.api = "blank" /\ prog.lastm.name = "set_buffers") =>
        /\ prog.raw.dest = "null" <=> prog.kind = "Hash"
        /\ prog.kind \in (Kinds \ {"Hash", "Blit"}) => prog.raw.bufsize = prog.lastm.len

\* What C29 says of copy, blit, cipher, hash and cipher+hash packets.
DestOfOtherOperations == prog.kind # "MemcopyHash" => C29_DestOfWritingOperations

\* C37: in a copy packet whose source is a memory buffer the byte count
\* given to the hardware exceeds neither the length of the source buffer nor
\* the length of the destination buffer, whatever the two lengths are.
C37_CopyCountWithinBuffers ==
    (prog.phase = "made" /\ prog.kind = "Memcopy"
        /\ prog.raw.source = "src" /\ prog.raw.dest = "dst") =>
            /\ prog.raw.bufsize <= prog.srclen
            /\ prog.raw.bufsize <= prog.dstlen

\* What C37 says of the destination alone: the byte count is the length of
\* the destination buffer.
CopyCountIsDestLength ==
    (prog.phase = "made" /\ prog.kind = "Memcopy" /\ prog.raw.dest = "dst") =>
        prog.raw.bufsize = prog.dstlen

\* The width and height halves of bufsize.
BlitWidth(raw) == raw.bufsize % 65536
BlitHeight(raw) == raw.bufsize \div 65536

\* C38: for every framebuffer length and row width, building a blit packet
\* fails (a row width of 0 panics at the division) or leaves 16-bit width
\* and height fields whose product does not exceed the length of the
\* framebuffer.
C38_BlitExtentWithinFramebuffer ==
    /\ (prog.kind = "Blit" /\ prog.phase = "made" /\ prog.raw.dest = "dst") =>
          /\ BlitWidth(prog.raw) \in 0..65535 /\ BlitHeight(prog.raw) \in 0..65535
          /\ BlitWidth(prog.raw) * BlitHeight(prog.raw) <= prog.dstlen
    /\ (prog.kind = "Blit" /\ prog.lastm.width = 0
            /\ prog.lastm.name \in {"framebuffer", "set_buffers"}) =>
          prog.phase = "panicked"
    /\ (prog.kind = "Blit" /\ prog.api = "mod" /\ prog.lastm.width = 0
            /\ prog.lastm.name = "new") => prog.phase = "panicked"

\* A blit packet of packet/mod.rs for a framebuffer of 65540 bytes and rows
\* of 4 bytes: the length is cut to 16 bits and the height is 1.
C38_Witness ==
    /\ prog.kind = "Blit" /\ prog.api = "mod" /\ prog.phase = "made"
    /\ prog.dstlen = 65540 /\ prog.lastm.width = 4
    /\ BlitWidth(prog.raw) = 4 /\ BlitHeight(prog.raw) = 1

\* Blit packets have been built, or building them has failed, with each
\* API: a panic for a row width of 0, and a height cut to 16 bits by
\* PacketBuilder<Blit>::framebuffer.
BlitFailsOnZeroWidth ==
    prog.kind = "Blit" /\ prog.phase = "panicked" /\ prog.api = "blank"
BlitBuilderCutsHeight ==
    /\ prog.kind = "Blit" /\ prog.api = "builder" /\ prog.lastm.name = "framebuffer"
    /\ prog.dstlen = 524320 /\ BlitWidth(prog.raw) = 8 /\ BlitHeight(prog.raw) = 4

\* ---------------------------------------------------------------------------
\* Order of execution inside a slice (C24)
\* ---------------------------------------------------------------------------

\* Packet p has been started or completed by the hardware.
Started(p) == pkt[p].status.bits # 0 \/ \E ch \in Chans : hw.cur[ch] = p

\* C24: the packets of a slice submitted with exec_slice are executed in
\* slice order: a packet that follows another in a slice (the other carries
\* chain-continuous) is started only after the other has completed, so the
\* completion of the last packet, the one the caller observes, comes after
\* that of every packet of the slice.
C24_SliceInOrder ==
    \A p \in Pkts :
        ("ChainContinuous" \in pkt[p].flags /\ p < NPkt /\ Started(p + 1)) =>
            pkt[p].status.bits # 0

\* What C24 says of exec_slice of ex.rs.
SliceInOrderEx == rev = "ex" => C24_SliceInOrder

\* ---------------------------------------------------------------------------
\* The register operations of one channel (C30): any one of enable, disable,
\* write_cmdptr, incr_semaphore and clear_status of channels/mod.rs applied
\* to any contents of the registers.
\* dec = [phase, hw (the registers, with ctrl = CHANNELCTRL), pre (the
\*        registers before the operation), op, ch]
\* ---------------------------------------------------------------------------

\* CHANNEL_BIT of Ch<N>, channels/mod.rs:81-106 (ENABLE_CHANNEL::RW::CHn).
CHANNEL_BIT(ch) == 2 ^ ch
BitSet(word, bit) == (word \div bit) % 2 = 1

\* Channel::enable, channels/mod.rs:22-25: CHANNELCTRL_SET of the bit, then
\* clear_status.
Channel_enable(m, ch) ==
    clear_status(
        [hw  |-> [m.hw EXCEPT !.ctrl = IF BitSet(@, CHANNEL_BIT(ch)) THEN @
                                       ELSE @ + CHANNEL_BIT(ch)],
         log |-> Append(m.log, RegWrite("CHANNELCTRL_SET", ch, CHANNEL_BIT(ch)))], ch)

\* Channel::disable, channels/mod.rs:28-31: clear_status, then
\* CHANNELCTRL_CLR of the bit.
Channel_disable(m, ch) ==
    LET c == clear_status(m, ch)
    IN  [hw  |-> [c.hw EXCEPT !.ctrl = IF BitSet(@, CHANNEL_BIT(ch)) THEN @ - CHANNEL_BIT(ch)
                                       ELSE @],
         log |-> Append(c.log, RegWrite("CHANNELCTRL_CLR", ch, CHANNEL_BIT(ch)))]

ChanOps == {"enable", "disable", "write_cmdptr", "incr_semaphore", "clear_status"}

ChanInit ==
    /\ \E ctrl \in 0..(2 ^ NChannels - 1), busyset \in SUBSET Chans,
          ptr \in {0, Earlier}, st \in {0, StSetupError} :
          LET h == [LoadedHw(busyset) EXCEPT !.cmdptr = [c \in Chans |-> ptr],
                                             !.stat = [c \in Chans |-> st]]
              regs == [cmdptr |-> h.cmdptr, sema |-> h.sema, stat |-> h.stat,
                       cur |-> h.cur, ctrl |-> ctrl]
          IN  dec = [phase |-> "regs", hw |-> regs, pre |-> regs, op |-> "none", ch |-> 0]
    /\ prog = Unused /\ life = Unused
    /\ ExecUnused

\* One operation of channel ch.
ChanOp(op, ch) ==
    /\ dec.phase = "regs"
    /\ LET m == [hw |-> dec.hw, log |-> <<>>]
           r == CASE op = "enable" -> Channel_enable(m, ch)
                  [] op = "disable" -> Channel_disable(m, ch)
                  [] op = "write_cmdptr" -> write_cmdptr(m, ch, 1)
                  [] op = "incr_semaphore" -> incr_semaphore(m, ch, 1)
                  [] op = "clear_status" -> clear_status(m, ch)
       IN  dec' = [phase |-> "done", hw |-> r.hw, pre |-> dec.hw, op |-> op, ch |-> ch]
    /\ UNCHANGED <<prog, life, execVars>>

ChanNext == \E op \in ChanOps, ch \in Chans : ChanOp(op, ch)

SpecChan == ChanInit /\ [][ChanNext]_vars

\* C30: an operation of channel i leaves the control bit, command pointer,
\* semaphore and status of every other channel as they were; and
\* write_cmdptr alone starts nothing: the semaphore of the channel is
\* unchanged, an idle channel stays not busy and works on no packet.
C30_ChannelIsolation ==
    dec.phase = "done" =>
        /\ \A j \in Chans \ {dec.ch} :
              /\ BitSet(dec.hw.ctrl, CHANNEL_BIT(j)) <=> BitSet(dec.pre.ctrl, CHANNEL_BIT(j))
              /\ dec.hw.cmdptr[j] = dec.pre.cmdptr[j]
              /\ dec.hw.sema[j] = dec.pre.sema[j]
              /\ dec.hw.stat[j] = dec.pre.stat[j]
        /\ dec.op = "write_cmdptr" =>
              /\ dec.hw.sema = dec.pre.sema
              /\ busy(dec.hw, dec.ch) <=> busy(dec.pre, dec.ch)
              /\ dec.hw.cur = dec.pre.cur

\* write_cmdptr has written the command pointer of idle Ch2 while the other
\* channels were busy and enabled, and Ch2 is still not busy.
C30_Witness ==
    /\ dec.phase = "done" /\ dec.op = "write_cmdptr" /\ dec.ch = 2
    /\ dec.hw.cmdptr[2] = 1 /\ dec.pre.cmdptr[2] = Earlier
    /\ ~busy(dec.hw, 2) /\ \A j \in Chans \ {2} : busy(dec.hw, j)
    /\ dec.hw.ctrl = 2 ^ NChannels - 1

\* ---------------------------------------------------------------------------
\* Release of the channel at the end of a chain (C35) and failed
\* submissions (C36)
\* ---------------------------------------------------------------------------

\* C35: every chain armed by an executor frees its channel: after a
\* successful submission the packet that ends the chain carries
\* decrement-semaphore, whether or not the caller set it; so a channel that
\* was armed by the executor, has worked through its chain without error
\* and has nothing left to work on, has its semaphore back at zero. (In a
\* state where such a channel has a nonzero semaphore no step of the
\* hardware lowers it any more: submissions to it fail with SlotsFull and
\* release() spins for ever.)
C35_ChainFreesChannel ==
    /\ (Submits(last) /\ Succeeded(last)) =>
          "DecrSemaphore" \in pkt[last.pk + last.n - 1].flags
    /\ \A ch \in Chans :
          (hw.cmdptr[ch] \in Pkts /\ hw.cur[ch] = 0 /\ hw.stat[ch] = 0) =>
              hw.sema[ch] = 0

\* What C35 says of the SingleChannel of ex/mod.rs.
SingleChannelModFreesChannel ==
    (rev = "exmod" /\ exKind = "single") => C35_ChainFreesChannel

\* C36: a submission that fails with SlotsFull leaves the packets of the
\* argument as the caller built them: no chain-continuous flag, no
\* decrement-semaphore flag the caller did not set, no next link.
C36_RefusalLeavesPackets ==
    (Submits(last) /\ last.res = SlotsFull) =>
        \A q \in Slice(last.pk, last.n) :
            /\ pkt[q].flags \subseteq {"DecrSemaphore"}
            /\ (last.op # "fpoll" /\ "DecrSemaphore" \in pkt[q].flags) => q \in last.ds
            /\ pkt[q].next = 0

\* What C36 says of exec_one, of the poll of an Idle Task, and of
\* exec_slice over one packet.
RefusalOfOnePacketLeavesIt == last.n <= 1 => C36_RefusalLeavesPackets

\* ---------------------------------------------------------------------------
\* Bringing the peripheral out of soft reset (C32): Builder::build of dcp.rs,
\* Builder::setup of dcp/mod.rs, setup<C> of lib.rs.
\* dec = [path, ch (the channel C of setup<C>), writes (the register writes
\*        of the path in program order), k (writes done), ctrl (the bits set
\*        in CTRL), enabled (the channels enabled in CHANNELCTRL),
\*        sftrst (the writes made to the SFTRST bit, in order)]
\* A write to CTRL_SET sets the bits of its value in CTRL, a write to
\* CTRL_CLR clears them; what the peripheral does to its other registers
\* while SFTRST is set is not part of the model.
\* ---------------------------------------------------------------------------

CtrlBits == {"SFTRST", "CLKGATE", "GATHER_RESIDUAL_WRITES", "ENABLE_CONTEXT_CACHING"}

\* Builder::build, dcp.rs:53-72
Builder_build_writes ==
    <<RegWrite("CTRL_CLR", 0, {"CLKGATE"}),
      RegWrite("CTRL_SET", 0, {"SFTRST"}),
      RegWrite("CTRL_CLR", 0, {"SFTRST"}),
      RegWrite("STAT_CLR", 0, {"IRQ"}),
      RegWrite("CTRL_SET", 0, {"GATHER_RESIDUAL_WRITES", "ENABLE_CONTEXT_CACHING"})>>

\* Builder::setup, dcp/mod.rs:38-53
Builder_setup_writes ==
    <<RegWrite("CTRL_SET", 0, {"SFTRST"}),
      RegWrite("CTRL_CLR", 0, {"SFTRST"}),
      RegWrite("CTRL_SET", 0, {"GATHER_RESIDUAL_WRITES", "ENABLE_CONTEXT_CACHING"}),
      RegWrite("STAT_CLR", 0, {"IRQ"})>>

\* setup<C>, lib.rs:39-70: the SFTRST mask goes to CTRL_CLR first and to
\* CTRL_SET second; C::clear_status, then C::enable (CHANNELCTRL_SET of the
\* channel's bit, then its status clear, channels/mod.rs:22-25).
setup_writes(c) ==
    <<RegWrite("CTRL_CLR", 0, {"SFTRST"}),
      RegWrite("CTRL_SET", 0, {"SFTRST"}),
      RegWrite("CTRL_SET", 0, {"GATHER_RESIDUAL_WRITES", "ENABLE_CONTEXT_CACHING"}),
      RegWrite("STAT_CLR", 0, {"IRQ"}),
      RegWrite("CHSTAT_CLR", c, {}),
      RegWrite("CHANNELCTRL_SET", c, {}),
      RegWrite("CHSTAT_CLR", c, {})>>

\* The registers after the write w.
SetupApply(d, w) ==
    [d EXCEPT
        !.ctrl = CASE w.reg = "CTRL_SET" -> @ \cup w.val
                   [] w.reg = "CTRL_CLR" -> @ \ w.val
                   [] OTHER -> @,
        !.enabled = IF w.reg = "CHANNELCTRL_SET" THEN @ \cup {w.ch} ELSE @,
        !.sftrst = IF w.reg \in {"CTRL_SET", "CTRL_CLR"} /\ "SFTRST" \in w.val
                   THEN Append(@, w.reg) ELSE @,
        !.k = @ + 1]

\* An initialisation path is entered with any contents of CTRL and
\* CHANNELCTRL.
SetupInit ==
    /\ \E path \in {"build", "setup", "lib"}, c \in Chans,
          ctrl \in SUBSET CtrlBits, en \in SUBSET Chans :
          /\ path # "lib" => c = 0
          /\ dec = [phase |-> "init", path |-> path, ch |-> c,
                    writes |-> CASE path = "build" -> Builder_build_writes
                                 [] path = "setup" -> Builder_setup_writes
                                 [] path = "lib" -> setup_writes(c),
                    k |-> 0, ctrl |-> ctrl, enabled |-> en, sftrst |-> <<>>]
    /\ prog = Unused /\ life = Unused
    /\ ExecUnused

\* The next register write of the path.
SetupWrite ==
    /\ dec.phase = "init" /\ dec.k < Len(dec.writes)
    /\ dec' = SetupApply(dec, dec.writes[dec.k + 1])
    /\ UNCHANGED <<prog, life, execVars>>

SetupNext == SetupWrite

SpecSetup == SetupInit /\ [][SetupNext]_vars

\* The path has returned.
Returned == dec.k = Len(dec.writes)

\* C32: when an initialisation path returns, SFTRST has been set and then
\* cleared, in that order, so it is clear; the residual-write and
\* context-caching bits are set; and after setup<C> channel C is enabled.
C32_OutOfSoftReset ==
    Returned =>
        /\ dec.sftrst = <<"CTRL_SET", "CTRL_CLR">>
        /\ "SFTRST" \notin dec.ctrl
        /\ {"GATHER_RESIDUAL_WRITES", "ENABLE_CONTEXT_CACHING"} \subseteq dec.ctrl
        /\ dec.path = "lib" => dec.ch \in dec.enabled

\* What C32 says of Builder::build and Builder::setup.
BuilderOutOfSoftReset == dec.path \in {"build", "setup"} => C32_OutOfSoftReset

\* What setup<C> does: SFTRST is cleared and then set, and is set at return;
\* the two other bits are set and channel C is enabled.
SetupLeavesSoftReset ==
    (Returned /\ dec.path = "lib") =>
        /\ dec.sftrst = <<"CTRL_CLR", "CTRL_SET">>
        /\ "SFTRST" \in dec.ctrl
        /\ {"GATHER_RESIDUAL_WRITES", "ENABLE_CONTEXT_CACHING"} \subseteq dec.ctrl
        /\ dec.ch \in dec.enabled

====
